---- MODULE Spec2Model ----
(***************************************************************************)
(* Verification model of the PN5180 NFC transaction engine.                *)
(*                                                                         *)
(*   - the ISO14443A response validator of the Arduino sketch (readCard,   *)
(*     validate4ByteUID, validate7ByteUID, validate10ByteUID, loop)        *)
(*   - the ESP-IDF driver: worker task, command handlers, state handlers,  *)
(*     public API wrappers, bus transport                                  *)
(*                                                                         *)
(* C arrays are 0-based, TLA+ sequences 1-based: At(buf, i) is buf[i].     *)
(***************************************************************************)
EXTENDS Integers, Sequences, FiniteSets, TLC

\* ------------------------------------------------------------------------
\* Bounds of the model (not program constants)
\* ------------------------------------------------------------------------

\* largest raw response length offered to the validator (lengths -2..MaxRawLen)
MaxRawLen == 11

\* ------------------------------------------------------------------------
\* Program constants
\* ------------------------------------------------------------------------

PN5180_OK == 0
PN5180_ERR_INVALID_ARG == -1
PN5180_ERR_TIMEOUT == -2
PN5180_ERR_PROTOCOL == -5
PN5180_ERR_SPI == -7
PN5180_ERR_NOT_INIT == -11
PN5180_ERR_UNSUPPORTED == -15

PN5180_PROTOCOL_ISO14443A == 0
PN5180_PROTOCOL_ISO14443B == 1
PN5180_PROTOCOL_ISO15693 == 2
PN5180_PROTOCOL_NFCIP1 == 3
PN5180_PROTOCOL_FELICA == 4
PN5180_PROTOCOL_COUNT == 5

\* return value of readCard for every validation failure
READCARD_INVALID == -3

\* cascade tag marker
CASCADE_TAG == 136

\* ------------------------------------------------------------------------
\* Bytes and buffers
\* ------------------------------------------------------------------------

At(buf, i) == buf[i + 1]

\* buf[from .. from+n-1] as a sequence
Slice(buf, from, n) == [k \in 1..n |-> buf[from + k]]

AllEqual(buf, from, n, b) == \A k \in 0..(n - 1) : At(buf, from + k) = b

Zeros(n) == [k \in 1..n |-> 0]

\* ------------------------------------------------------------------------
\* ISO14443A response validation (Arduino sketch)
\* ------------------------------------------------------------------------

\* validate4ByteUID without the all-0xFF test
validate4ByteUID_NoAllFF(buf, off) ==
    IF At(buf, off) = 0 \/ At(buf, off) = CASCADE_TAG THEN FALSE
    ELSE IF AllEqual(buf, off, 4, 0) THEN FALSE
    ELSE TRUE

\* uid is the buffer, off the index of uid[0] in it
validate4ByteUID(buf, off) ==
    IF At(buf, off) = 0 \/ At(buf, off) = CASCADE_TAG THEN FALSE
    ELSE IF AllEqual(buf, off, 4, 0) THEN FALSE
    ELSE IF AllEqual(buf, off, 4, 255) THEN FALSE
    ELSE TRUE

\* validate7ByteUID without the cascade-tag test
validate7ByteUID_NoCascadeTag(buf, off) ==
    IF AllEqual(buf, off + 4, 3, 0) THEN FALSE
    ELSE IF AllEqual(buf, off + 4, 3, 255) THEN FALSE
    ELSE IF At(buf, off) = 0 THEN FALSE
    ELSE TRUE

validate7ByteUID(buf, off) ==
    IF At(buf, off + 3) # CASCADE_TAG THEN FALSE
    ELSE IF AllEqual(buf, off + 4, 3, 0) THEN FALSE
    ELSE IF AllEqual(buf, off + 4, 3, 255) THEN FALSE
    ELSE IF At(buf, off) = 0 THEN FALSE
    ELSE TRUE

validate10ByteUID(buf, off) ==
    IF AllEqual(buf, off, 10, 0) THEN FALSE
    ELSE IF AllEqual(buf, off, 10, 255) THEN FALSE
    ELSE TRUE

\* little-endian answer-to-request
AtqaOf(buf) == At(buf, 1) * 256 + At(buf, 0)

ValidSAKs == {0, 8, 9, 16, 17, 24, 32, 40, 136, 137}

isValidSAK(sak) == sak \in ValidSAKs

\* readCard with the length test written as a range test and the branches
\* chosen by "at least"
readCard_RangeLength(mem, rawLen, uidIn) ==
    LET fail == [ret |-> READCARD_INVALID, uid |-> uidIn]
        copy(n) == [k \in 1..10 |-> IF k <= n THEN At(mem, 3 + k - 1) ELSE uidIn[k]]
    IN  IF rawLen <= 0 THEN [ret |-> rawLen, uid |-> uidIn]
        ELSE IF rawLen < 4 \/ rawLen > 10 THEN fail
        ELSE IF AtqaOf(mem) = 0 \/ AtqaOf(mem) = 65535 THEN fail
        ELSE IF ~isValidSAK(At(mem, 2)) THEN fail
        ELSE IF rawLen < 7 THEN
                 IF ~validate4ByteUID(mem, 3) THEN fail
                 ELSE [ret |-> 4, uid |-> copy(4)]
        ELSE IF rawLen < 10 THEN
                 IF ~validate7ByteUID(mem, 3) THEN fail
                 ELSE [ret |-> 7, uid |-> copy(7)]
        ELSE IF ~validate10ByteUID(mem, 3) THEN fail
        ELSE [ret |-> 10, uid |-> copy(10)]

\* readCard copying the identifier in reverse byte order
readCard_Reversed(mem, rawLen, uidIn) ==
    LET fail == [ret |-> READCARD_INVALID, uid |-> uidIn]
        copy(n) == [k \in 1..10 |-> IF k <= n THEN At(mem, 3 + n - k) ELSE uidIn[k]]
    IN  IF rawLen <= 0 THEN [ret |-> rawLen, uid |-> uidIn]
        ELSE IF rawLen # 4 /\ rawLen # 7 /\ rawLen # 10 THEN fail
        ELSE IF AtqaOf(mem) = 0 \/ AtqaOf(mem) = 65535 THEN fail
        ELSE IF ~isValidSAK(At(mem, 2)) THEN fail
        ELSE IF rawLen = 4 THEN
                 IF ~validate4ByteUID(mem, 3) THEN fail
                 ELSE [ret |-> 4, uid |-> copy(4)]
        ELSE IF rawLen = 7 THEN
                 IF ~validate7ByteUID(mem, 3) THEN fail
                 ELSE [ret |-> 7, uid |-> copy(7)]
        ELSE IF ~validate10ByteUID(mem, 3) THEN fail
        ELSE [ret |-> 10, uid |-> copy(10)]

\* readCard after nfc.activateTypeA returned rawLen and filled mem.
\* mem is responseBuffer[0..9] followed by the three bytes that lie behind
\* it in memory: a 10-byte identifier is read from responseBuffer[3..12].
\* uidIn is the caller's uidBuffer.  Result: return value and uidBuffer.
readCard(mem, rawLen, uidIn) ==
    LET fail == [ret |-> READCARD_INVALID, uid |-> uidIn]
        copy(n) == [k \in 1..10 |-> IF k <= n THEN At(mem, 3 + k - 1) ELSE uidIn[k]]
    IN  IF rawLen <= 0 THEN [ret |-> rawLen, uid |-> uidIn]
        ELSE IF rawLen # 4 /\ rawLen # 7 /\ rawLen # 10 THEN fail
        ELSE IF AtqaOf(mem) = 0 \/ AtqaOf(mem) = 65535 THEN fail
        ELSE IF ~isValidSAK(At(mem, 2)) THEN fail
        ELSE IF rawLen = 4 THEN
                 IF ~validate4ByteUID(mem, 3) THEN fail
                 ELSE [ret |-> 4, uid |-> copy(4)]
        ELSE IF rawLen = 7 THEN
                 IF ~validate7ByteUID(mem, 3) THEN fail
                 ELSE [ret |-> 7, uid |-> copy(7)]
        ELSE IF rawLen = 10 THEN
                 IF ~validate10ByteUID(mem, 3) THEN fail
                 ELSE [ret |-> 10, uid |-> copy(10)]
        ELSE fail

\* ------------------------------------------------------------------------
\* Card record and response processing (ESP-IDF driver)
\* ------------------------------------------------------------------------

\* pn5180_card_info_t after "= {0}" (timestamp, block_size and block_count
\* are never read by the driver and are left out)
ZeroCard ==
    [uid |-> Zeros(10), uid_len |-> 0, protocol |-> 0, sak |-> 0, atqa |-> 0,
     dsfid |-> 0, afi |-> 0, rssi |-> 0]

\* Anticollision response validator of the driver.  response holds the first
\* 13 bytes of the receive buffer, length the length handed in by the caller.
pn5180_process_iso14443a_response(response, length, card) ==
    LET bad == [err |-> PN5180_ERR_PROTOCOL, card |-> card]
        idOk == IF length = 4 THEN validate4ByteUID(response, 3)
                ELSE IF length = 7 THEN validate7ByteUID(response, 3)
                ELSE validate10ByteUID(response, 3)
    IN  IF length \notin {4, 7, 10} THEN bad
        ELSE IF AtqaOf(response) = 0 \/ AtqaOf(response) = 65535 THEN bad
        ELSE IF ~isValidSAK(At(response, 2)) THEN bad
        ELSE IF ~idOk THEN bad
        ELSE [err |-> PN5180_OK,
              card |-> [card EXCEPT
                          !.uid = [k \in 1..10 |->
                                     IF k <= length THEN At(response, 3 + k - 1) ELSE 0],
                          !.uid_len = length,
                          !.sak = At(response, 2),
                          !.atqa = AtqaOf(response)]]

\* Inventory response validator of the driver: flags, DSFID, 8 identifier bytes.
pn5180_process_iso15693_response(response, length, card) ==
    LET bad == [err |-> PN5180_ERR_PROTOCOL, card |-> card]
    IN  IF length < 10 THEN bad
        ELSE IF AllEqual(response, 2, 8, 0) \/ AllEqual(response, 2, 8, 255) THEN bad
        ELSE [err |-> PN5180_OK,
              card |-> [card EXCEPT
                          !.uid = [k \in 1..10 |->
                                     IF k <= 8 THEN At(response, 2 + k - 1) ELSE 0],
                          !.uid_len = 8,
                          !.dsfid = At(response, 1)]]

\* pn5180_state_processing after a successful buffer read: build the record,
\* validate by protocol, read the RSSI, decide about the callback.
\* rf_status is the value read from RF_STATUS, or -1 when that read failed.
\* Result: the validator's error, the record, and whether the callback ran.
PN5180_RF_STATUS_RSSI_MASK == 31

\* the processing step invoking the callback whatever the validator returned
ProcessResponse_AlwaysCallback(protocol_index, rx_buffer, rx_length, rf_status, callback) ==
    LET card0 == [ZeroCard EXCEPT !.protocol = protocol_index]
        v == IF protocol_index = PN5180_PROTOCOL_ISO14443A
                 THEN pn5180_process_iso14443a_response(rx_buffer, rx_length, card0)
             ELSE IF protocol_index = PN5180_PROTOCOL_ISO15693
                 THEN pn5180_process_iso15693_response(rx_buffer, rx_length, card0)
             ELSE [err |-> PN5180_ERR_UNSUPPORTED, card |-> card0]
    IN  [err |-> v.err, card |-> v.card, called |-> (callback # 0)]

ProcessResponse(protocol_index, rx_buffer, rx_length, rf_status, callback) ==
    LET card0 == [ZeroCard EXCEPT !.protocol = protocol_index]
        v == IF protocol_index = PN5180_PROTOCOL_ISO14443A
                 THEN pn5180_process_iso14443a_response(rx_buffer, rx_length, card0)
             ELSE IF protocol_index = PN5180_PROTOCOL_ISO15693
                 THEN pn5180_process_iso15693_response(rx_buffer, rx_length, card0)
             ELSE [err |-> PN5180_ERR_UNSUPPORTED, card |-> card0]
        card1 == IF v.err = PN5180_OK /\ rf_status >= 0
                     THEN [v.card EXCEPT !.rssi = rf_status % (PN5180_RF_STATUS_RSSI_MASK + 1)]
                 ELSE v.card
    IN  [err |-> v.err, card |-> card1,
         called |-> (v.err = PN5180_OK /\ callback # 0)]

\* ------------------------------------------------------------------------
\* Driver constants
\* ------------------------------------------------------------------------

PN5180_IRQ_STATUS_TX_DONE == 2
PN5180_IRQ_STATUS_RX_DONE == 4
PN5180_IRQ_STATUS_RX_ERROR == 8
PN5180_IRQ_STATUS_TX_ERROR == 16

CONFIG_PN5180_BUSY_TIMEOUT_MS == 100
CONFIG_PN5180_DETECT_TIMEOUT_14443A_MS == 2
CONFIG_PN5180_DETECT_TIMEOUT_14443B_MS == 2
CONFIG_PN5180_DETECT_TIMEOUT_15693_MS == 5
CONFIG_PN5180_RX_BUFFER_SIZE == 1024
CONFIG_PN5180_COMMAND_QUEUE_SIZE == 10
CONFIG_PN5180_SCAN_CYCLE_DELAY_MS == 1

\* literal delays of the state handlers
RESET_SETTLE_MS == 50
TX_TIMEOUT_MS == 100
RX_DEFAULT_TIMEOUT_MS == 5
ERROR_BACKOFF_MS == 1000
RECOVERY_DELAY_MS == 10
WAKE_SETTLE_MS == 50
WAKE_DELAY_MS == 10

\* ------------------------------------------------------------------------
\* Integer helpers
\* ------------------------------------------------------------------------

Min(a, b) == IF a < b THEN a ELSE b

\* value & bit # 0, for bit a power of two
HasBit(value, bit) == (value \div bit) % 2 = 1

\* uint8_t x; x++
Inc8(x) == (x + 1) % 256

\* ------------------------------------------------------------------------
\* Device structure
\*
\* The millisecond tick is kept relative: for a time stamp ts of the device
\*   state_age = pn5180_get_tick_ms() - state_timestamp
\*   scan_age  = pn5180_get_tick_ms() - last_scan_time
\*   rx_over   = pn5180_get_tick_ms() - busy_wait_start_time  (negative
\*               before the receive deadline)
\* kept no finer than the code's comparisons can tell apart.
\* ------------------------------------------------------------------------

\* the values state_age is compared with: below RESET_SETTLE_MS, from there
\* up to TX_TIMEOUT_MS, above it, above ERROR_BACKOFF_MS
AgeMarks == {0, RESET_SETTLE_MS, TX_TIMEOUT_MS + 1, ERROR_BACKOFF_MS + 1}

\* the largest mark an age has reached
Quantize(age) == CHOOSE m \in AgeMarks : m <= age /\ \A n \in AgeMarks : n <= age => n <= m

ScanAgeCap == CONFIG_PN5180_SCAN_CYCLE_DELAY_MS

\* the device after calloc and the assignments of pn5180_init
DevInit ==
    [state |-> "UNINITIALIZED", state_age |-> 0,
     scanning_enabled |-> FALSE, enabled_protocols |-> 0,
     current_protocol_index |-> 0, scan_age |-> 0, rx_over |-> 0,
     card_callback |-> 0, error_callback |-> 0, log_callback |-> 0,
     callback_user_data |-> 0,
     device_mutex |-> "free", busy_wait_start_time |-> 0]

\* time passes by ms milliseconds
Elapse(d, ms) ==
    [d EXCEPT !.state_age = Quantize(@ + ms),
              !.scan_age = Min(@ + ms, ScanAgeCap),
              !.rx_over = Min(@ + ms, 1)]

\* ------------------------------------------------------------------------
\* Command handlers.  Each takes the device d, the chip c and the outcome
\* of every bus access it may make (TRUE: PN5180_OK) and yields the new
\* device, the new chip, the return value and the number of bus accesses.
\* ------------------------------------------------------------------------

Outcome(d, c, ret, bus) == [dev |-> d, chip |-> c, ret |-> ret, bus |-> bus]

pn5180_cmd_start_scan(d, c, protocols) ==
    IF d.scanning_enabled THEN Outcome(d, c, PN5180_OK, 0)
    ELSE Outcome([d EXCEPT !.enabled_protocols = protocols,
                           !.scanning_enabled = TRUE,
                           !.current_protocol_index = 0,
                           !.state = "CONFIGURING",
                           !.state_age = 0],
                 c, PN5180_OK, 0)

\* the stop handler clearing the flag and the field but leaving the state
pn5180_cmd_stop_scan_KeepsState(d, c, r1, r2) ==
    IF ~d.scanning_enabled THEN Outcome(d, c, PN5180_OK, 0)
    ELSE LET d1 == [d EXCEPT !.scanning_enabled = FALSE]
         IN  IF ~r1 THEN Outcome(d1, c, PN5180_OK, 1)
             ELSE IF ~r2 THEN Outcome(d1, c, PN5180_OK, 2)
             ELSE Outcome(d1, [c EXCEPT !.rf_on = FALSE], PN5180_OK, 2)

\* the stop handler without its "already stopped" exit
pn5180_cmd_stop_scan_Unguarded(d, c, r1, r2) ==
    LET d1 == [d EXCEPT !.scanning_enabled = FALSE, !.state = "IDLE"]
    IN  IF ~r1 THEN Outcome(d1, c, PN5180_OK, 1)
        ELSE IF ~r2 THEN Outcome(d1, c, PN5180_OK, 2)
        ELSE Outcome(d1, [c EXCEPT !.rf_on = FALSE], PN5180_OK, 2)

pn5180_cmd_stop_scan(d, c, r1, r2) ==
    IF ~d.scanning_enabled THEN Outcome(d, c, PN5180_OK, 0)
    ELSE LET d1 == [d EXCEPT !.scanning_enabled = FALSE, !.state = "IDLE"]
         IN  IF ~r1 THEN Outcome(d1, c, PN5180_OK, 1)
             ELSE IF ~r2 THEN Outcome(d1, c, PN5180_OK, 2)
             ELSE Outcome(d1, [c EXCEPT !.rf_on = FALSE], PN5180_OK, 2)

\* the sleep handler entering Sleep although the power-down write failed
pn5180_cmd_sleep_IgnoresFailure(d, c, r1, r2, r3) ==
    IF ~r1 THEN Outcome(d, c, PN5180_ERR_SPI, 1)
    ELSE IF c.rf_on /\ ~r2 THEN Outcome(d, c, PN5180_ERR_SPI, 2)
    ELSE LET c1 == [c EXCEPT !.rf_on = FALSE]
             n == IF c.rf_on THEN 3 ELSE 2
         IN  IF ~r3 THEN Outcome([d EXCEPT !.state = "SLEEP"], c1, PN5180_ERR_SPI, n)
             ELSE Outcome([d EXCEPT !.state = "SLEEP"],
                          [c1 EXCEPT !.power_down = TRUE], PN5180_OK, n)

\* pn5180_enter_sleep_mode and its caller
pn5180_cmd_sleep(d, c, r1, r2, r3) ==
    IF ~r1 THEN Outcome(d, c, PN5180_ERR_SPI, 1)
    ELSE IF c.rf_on /\ ~r2 THEN Outcome(d, c, PN5180_ERR_SPI, 2)
    ELSE LET c1 == [c EXCEPT !.rf_on = FALSE]
             n == IF c.rf_on THEN 3 ELSE 2
         IN  IF ~r3 THEN Outcome(d, c1, PN5180_ERR_SPI, n)
             ELSE Outcome([d EXCEPT !.state = "SLEEP"],
                          [c1 EXCEPT !.power_down = TRUE], PN5180_OK, n)

\* pn5180_wake_from_sleep and its caller; r2 is pn5180_configure_defaults
pn5180_cmd_wakeup(d, c, r1, r2) ==
    IF ~r1 THEN Outcome(d, c, PN5180_ERR_SPI, 1)
    ELSE LET c1 == [c EXCEPT !.power_down = FALSE]
             d1 == Elapse(d, WAKE_DELAY_MS)
         IN  IF ~r2 THEN Outcome(d1, c1, PN5180_ERR_SPI, 2)
             ELSE Outcome([d1 EXCEPT !.state = "WAKING_UP", !.state_age = 0],
                          c1, PN5180_OK, 2)

pn5180_cmd_reset(d, c, r1) ==
    IF ~r1 THEN Outcome(d, c, PN5180_ERR_SPI, 1)
    ELSE Outcome([d EXCEPT !.state = "RESETTING", !.state_age = 0],
                 [c EXCEPT !.rf_on = FALSE, !.power_down = FALSE],
                 PN5180_OK, 1)

\* ------------------------------------------------------------------------
\* State handlers.  Each yields the new device and chip, the number of bus
\* accesses and what pn5180_state_processing reports: whether the callback
\* ran, the validator's error and the record.
\* ------------------------------------------------------------------------

Step(d, c, bus) ==
    [dev |-> d, chip |-> c, bus |-> bus, hang |-> FALSE,
     called |-> FALSE, err |-> PN5180_OK, card |-> ZeroCard, rx_length |-> 0]

\* r is pn5180_configure_defaults
pn5180_state_resetting(d, c, r) ==
    IF d.state_age < RESET_SETTLE_MS THEN Step(d, c, 0)
    ELSE IF ~r THEN Step([d EXCEPT !.state = "ERROR"], c, 1)
    ELSE IF d.scanning_enabled THEN Step([d EXCEPT !.state = "CONFIGURING"], c, 1)
    ELSE Step([d EXCEPT !.state = "IDLE"], c, 1)

pn5180_state_idle(d, c) == Step(d, c, 0)

\* read RF_CONTROL, write it with the field on, clear the IRQs (unchecked),
\* write IRQ_ENABLE
pn5180_configure_for_scanning(c, r1, r2, r4) ==
    IF ~r1 THEN [err |-> PN5180_ERR_SPI, chip |-> c, bus |-> 1]
    ELSE IF ~r2 THEN [err |-> PN5180_ERR_SPI, chip |-> c, bus |-> 2]
    ELSE IF ~r4 THEN [err |-> PN5180_ERR_SPI, chip |-> [c EXCEPT !.rf_on = TRUE], bus |-> 4]
    ELSE [err |-> PN5180_OK, chip |-> [c EXCEPT !.rf_on = TRUE], bus |-> 4]

pn5180_state_configuring(d, c, r1, r2, r4) ==
    LET cfg == pn5180_configure_for_scanning(c, r1, r2, r4)
    IN  IF cfg.err # PN5180_OK
            THEN Step([d EXCEPT !.state = "ERROR"], cfg.chip, cfg.bus)
        ELSE Step([d EXCEPT !.state = "SCANNING",
                            !.current_protocol_index = 0,
                            !.scan_age = 0],
                  cfg.chip, cfg.bus)

\* The search loop of pn5180_state_scanning from index idx, entered at index
\* start.  probes counts the iterations left before the search is taken to
\* run forever, and left is that count when the search ends.
RECURSIVE FindEnabledProtocol(_, _, _, _)
FindEnabledProtocol(mask, idx, start, probes) ==
    IF idx < 8 /\ HasBit(mask, 2 ^ idx)
        THEN [found |-> TRUE, hang |-> FALSE, index |-> idx, left |-> probes]
    ELSE LET i1 == Inc8(idx)
             i2 == IF i1 >= PN5180_PROTOCOL_COUNT THEN 0 ELSE i1
         IN  IF i2 = start THEN [found |-> FALSE, hang |-> FALSE, index |-> i2, left |-> probes]
             ELSE IF probes = 0 THEN [found |-> FALSE, hang |-> TRUE, index |-> i2, left |-> 0]
             ELSE FindEnabledProtocol(mask, i2, start, probes - 1)

\* number of bus accesses of pn5180_switch_protocol followed by
\* pn5180_send_detect_command when none fails
SwitchAccesses == 4
DetectAccesses == 4

\* f: the bus access that fails (0: none), counted over both calls
pn5180_switch_protocol(protocol, f) ==
    IF protocol >= PN5180_PROTOCOL_COUNT THEN [err |-> PN5180_ERR_INVALID_ARG, bus |-> 0]
    ELSE IF protocol \notin {PN5180_PROTOCOL_ISO14443A, PN5180_PROTOCOL_ISO15693}
        THEN [err |-> PN5180_ERR_UNSUPPORTED, bus |-> 0]
    ELSE IF f \in 1..SwitchAccesses THEN [err |-> PN5180_ERR_SPI, bus |-> f]
    ELSE [err |-> PN5180_OK, bus |-> SwitchAccesses]

pn5180_send_detect_command(protocol, f) ==
    IF protocol \notin {PN5180_PROTOCOL_ISO14443A, PN5180_PROTOCOL_ISO15693}
        THEN [err |-> PN5180_ERR_UNSUPPORTED, bus |-> 0]
    ELSE IF f \in 1..DetectAccesses THEN [err |-> PN5180_ERR_SPI, bus |-> f]
    ELSE [err |-> PN5180_OK, bus |-> DetectAccesses]

pn5180_state_scanning(d, c, f) ==
    IF ~d.scanning_enabled THEN Step([d EXCEPT !.state = "IDLE"], c, 0)
    ELSE IF d.scan_age < CONFIG_PN5180_SCAN_CYCLE_DELAY_MS THEN Step(d, c, 0)
    ELSE
      LET s == FindEnabledProtocol(d.enabled_protocols, d.current_protocol_index,
                                   d.current_protocol_index, 2 * 256)
          d1 == [d EXCEPT !.current_protocol_index = s.index]
          next == [d1 EXCEPT !.current_protocol_index = Inc8(s.index), !.scan_age = 0]
          sw == pn5180_switch_protocol(s.index, f)
          det == pn5180_send_detect_command(s.index, f - SwitchAccesses)
      IN  IF s.hang THEN [Step(d1, c, 0) EXCEPT !.hang = TRUE]
          ELSE IF ~s.found THEN Step([d1 EXCEPT !.state = "IDLE"], c, 0)
          ELSE IF sw.err # PN5180_OK THEN Step(next, c, sw.bus)
          ELSE IF det.err # PN5180_OK THEN Step(next, c, sw.bus + det.bus)
          ELSE Step([d1 EXCEPT !.state = "TRANSMITTING", !.state_age = 0],
                    c, sw.bus + det.bus)

\* the transmit handler setting the ISO14443A deadline for every protocol
RxTimeout_AlwaysShort(protocol_index) == CONFIG_PN5180_DETECT_TIMEOUT_14443A_MS

\* receive deadline of the protocol
RxTimeout(protocol_index) ==
    IF protocol_index = PN5180_PROTOCOL_ISO14443A THEN CONFIG_PN5180_DETECT_TIMEOUT_14443A_MS
    ELSE IF protocol_index = PN5180_PROTOCOL_ISO14443B THEN CONFIG_PN5180_DETECT_TIMEOUT_14443B_MS
    ELSE IF protocol_index = PN5180_PROTOCOL_ISO15693 THEN CONFIG_PN5180_DETECT_TIMEOUT_15693_MS
    ELSE RX_DEFAULT_TIMEOUT_MS

\* the transmit handler clearing a transmit error without leaving the state
pn5180_state_transmitting_StayOnError(d, c, r, irq_status) ==
    IF ~r THEN Step([d EXCEPT !.state = "ERROR"], c, 1)
    ELSE IF HasBit(irq_status, PN5180_IRQ_STATUS_TX_DONE)
        THEN Step([d EXCEPT !.state = "RECEIVING", !.state_age = 0,
                            !.rx_over = 0 - RxTimeout(d.current_protocol_index)],
                  c, 2)
    ELSE IF HasBit(irq_status, PN5180_IRQ_STATUS_TX_ERROR)
        THEN Step([d EXCEPT !.current_protocol_index = Inc8(@)], c, 2)
    ELSE IF d.state_age > TX_TIMEOUT_MS
        THEN Step([d EXCEPT !.current_protocol_index = Inc8(@), !.state = "SCANNING"], c, 1)
    ELSE Step(d, c, 1)

\* r: the read of IRQ_STATUS succeeds; irq_status: the value read
pn5180_state_transmitting(d, c, r, irq_status) ==
    IF ~r THEN Step([d EXCEPT !.state = "ERROR"], c, 1)
    ELSE IF HasBit(irq_status, PN5180_IRQ_STATUS_TX_DONE)
        THEN Step([d EXCEPT !.state = "RECEIVING", !.state_age = 0,
                            !.rx_over = 0 - RxTimeout(d.current_protocol_index)],
                  c, 2)
    ELSE IF HasBit(irq_status, PN5180_IRQ_STATUS_TX_ERROR)
        THEN Step([d EXCEPT !.current_protocol_index = Inc8(@), !.state = "SCANNING"], c, 2)
    ELSE IF d.state_age > TX_TIMEOUT_MS
        THEN Step([d EXCEPT !.current_protocol_index = Inc8(@), !.state = "SCANNING"], c, 1)
    ELSE Step(d, c, 1)

pn5180_state_receiving(d, c, r, irq_status) ==
    IF ~r THEN Step([d EXCEPT !.state = "ERROR"], c, 1)
    ELSE IF HasBit(irq_status, PN5180_IRQ_STATUS_RX_DONE)
        THEN Step([d EXCEPT !.state = "PROCESSING"], c, 2)
    ELSE IF HasBit(irq_status, PN5180_IRQ_STATUS_RX_ERROR)
        THEN Step([d EXCEPT !.current_protocol_index = Inc8(@), !.state = "SCANNING"], c, 2)
    ELSE IF d.rx_over > 0
        THEN Step([d EXCEPT !.current_protocol_index = Inc8(@), !.state = "SCANNING",
                            !.scan_age = 0], c, 1)
    ELSE Step(d, c, 1)

\* pn5180_read_buffer as called by pn5180_state_processing: length holds the
\* buffer size on entry and the number of bytes read on return.  data is the
\* content of the chip's receive buffer.
pn5180_read_buffer(data, length, r) ==
    IF ~r THEN [err |-> PN5180_ERR_SPI, buffer |-> data, length |-> length]
    ELSE [err |-> PN5180_OK, buffer |-> data,
          length |-> Min(length, CONFIG_PN5180_RX_BUFFER_SIZE)]

\* r: the buffer read succeeds; data: the chip's receive buffer;
\* rf_status: RF_STATUS as read, -1 when that read fails
pn5180_state_processing(d, c, r, data, rf_status) ==
    LET rd == pn5180_read_buffer(data, CONFIG_PN5180_RX_BUFFER_SIZE, r)
        p == ProcessResponse(d.current_protocol_index, rd.buffer, rd.length,
                             rf_status, d.card_callback)
    IN  IF rd.err # PN5180_OK THEN Step([d EXCEPT !.state = "SCANNING"], c, 1)
        ELSE [dev |-> [d EXCEPT !.current_protocol_index = Inc8(@),
                                !.state = "SCANNING", !.scan_age = 0],
              chip |-> c,
              bus |-> IF p.err = PN5180_OK THEN 2 ELSE 1,
              hang |-> FALSE,
              called |-> p.called, err |-> p.err, card |-> p.card,
              rx_length |-> rd.length]

\* soft reset and pn5180_configure_defaults, both unchecked
pn5180_state_error(d, c) ==
    IF d.state_age > ERROR_BACKOFF_MS
        THEN LET d1 == Elapse(d, RECOVERY_DELAY_MS)
             IN  Step([d1 EXCEPT !.state = IF d.scanning_enabled THEN "CONFIGURING" ELSE "IDLE",
                                 !.state_age = 0],
                      c, 2)
    ELSE Step(d, c, 0)

pn5180_state_sleep(d, c) == Step(d, c, 0)

\* pn5180_configure_defaults, unchecked
pn5180_state_waking_up(d, c) ==
    IF d.state_age < WAKE_SETTLE_MS THEN Step(d, c, 0)
    ELSE Step([d EXCEPT !.state = "IDLE"], c, 1)

\* ------------------------------------------------------------------------
\* The driver as a state machine
\* ------------------------------------------------------------------------

\* commands the model lets wait in the queue at once (the queue itself holds
\* CONFIG_PN5180_COMMAND_QUEUE_SIZE)
MaxPending == 1

\* protocol masks the application asks for: none, ISO14443A alone,
\* ISO14443A + ISO15693 + FeliCa
ScanMasks == {0, 1, 21}

\* card callbacks the application registers; 0 is NULL
Callbacks == {0, 1}

\* The user data the application registers with a callback: NULL with no
\* callback, and for each callback a context object of its own.
CardContext(callback) == IF callback = 0 THEN 0 ELSE 10 + callback
ErrorContext(callback) == IF callback = 0 THEN 0 ELSE 20 + callback
LogContext(callback) == IF callback = 0 THEN 0 ELSE 30 + callback

\* how far the tick counter moves in one Tick step: past every deadline
TickSteps == {ERROR_BACKOFF_MS + 1}

\* the first 13 bytes of the chip's receive buffer after a reception:
\* a MIFARE Classic answer (ATQA 0x0004, SAK 0x08, UID DE AD BE EF),
\* an ISO15693 inventory answer (flags, DSFID, 8 identifier bytes),
\* and an empty buffer
GoodMifare == <<4, 0, 8, 222, 173, 190, 239, 0, 0, 0, 0, 0, 0>>
GoodVicinity == <<0, 7, 17, 34, 51, 68, 85, 102, 4, 224, 0, 0, 0>>
TagAnswers == {GoodMifare, GoodVicinity, Zeros(13)}

\* values read from IRQ_STATUS and RF_STATUS
IrqReads == {0, PN5180_IRQ_STATUS_TX_DONE, PN5180_IRQ_STATUS_RX_DONE,
             PN5180_IRQ_STATUS_RX_ERROR, PN5180_IRQ_STATUS_TX_ERROR,
             PN5180_IRQ_STATUS_TX_DONE + PN5180_IRQ_STATUS_TX_ERROR,
             PN5180_IRQ_STATUS_RX_DONE + PN5180_IRQ_STATUS_RX_ERROR}
RfStatusReads == {-1, 231}

VARIABLES
    dev,            \* struct pn5180_dev_t
    chip,           \* the PN5180: RF field, power-down
    command_queue,  \* dev->command_queue
    worker_pc,      \* pn5180_state_task: "cmd" before xQueueReceive, "state"
                    \* before the switch, "hung" inside a loop it never leaves
    init_done,      \* pn5180_init has returned the handle
    irq_fault,      \* hardware scenario: "none", or "tx_error" when IRQ_STATUS
                    \* reports a transmit error on every attempt
    ev,             \* what the last step did: operation, return value, bus
                    \* accesses, callback invocation
    sketch,         \* the Arduino sketch and the response under validation
    spi,            \* the bus transport
    bringup,        \* pn5180_init: its position and the resources it holds
    tick,           \* pn5180_get_tick_ms() as a 32-bit value, where a
                    \* specification follows the counter itself
    reading,        \* pn5180_cmd_read_uid taken step by step: its position,
                    \* its parameters and the time it has waited
    tested,         \* the value of dev->card_callback the worker has tested and
                    \* not yet called through
    since           \* milliseconds since the last scan attempt began and
                    \* since the Error state was entered, where a
                    \* specification measures them

vars == <<dev, chip, command_queue, worker_pc, init_done, irq_fault, tested, ev, sketch, spi,
          bringup, tick, reading, since>>

ChipInit == [rf_on |-> FALSE, power_down |-> FALSE]

NoEvent ==
    [op |-> "none", ret |-> PN5180_OK, bus |-> 0, called |-> FALSE, cb |-> 0,
     err |-> PN5180_OK, card |-> ZeroCard, rx_length |-> 0,
     read_ok |-> FALSE, answer |-> <<>>, proto |-> 0, user_data |-> 0]

Event(op, ret, bus) == [NoEvent EXCEPT !.op = op, !.ret = ret, !.bus = bus]

SketchIdle == [pc |-> "off"]
SpiIdle == [pc |-> "off"]
BringupOff == [pc |-> "off"]
ReadingOff == [pc |-> "off"]
SinceOff == [attempt |-> 0, dispatch |-> 0, error |-> 0]

Init ==
    /\ dev = DevInit
    /\ chip = ChipInit
    /\ command_queue = <<>>
    /\ worker_pc = "cmd"
    /\ init_done = FALSE
    /\ irq_fault \in {"none", "tx_error"}
    /\ tested = 0
    /\ ev = NoEvent
    /\ bringup = BringupOff
    /\ tick = 0
    /\ reading = ReadingOff
    /\ since = SinceOff
    /\ sketch = SketchIdle
    /\ spi = SpiIdle

\* pn5180_init, from the creation of the worker to the return of the handle
InitFinish ==
    /\ ~init_done
    /\ init_done' = TRUE
    /\ dev' = [dev EXCEPT !.state = "IDLE"]
    /\ ev' = Event("pn5180_init", PN5180_OK, 0)
    /\ UNCHANGED <<chip, command_queue, worker_pc, irq_fault, tested, sketch, spi, bringup, tick,
                   reading, since>>

\* the tick counter advances
Tick ==
    /\ \E ms \in TickSteps : dev' = Elapse(dev, ms)
    /\ ev' = Event("tick", PN5180_OK, 0)
    /\ UNCHANGED <<chip, command_queue, worker_pc, init_done, irq_fault, tested, sketch, spi,
                   bringup, tick, reading, since>>

\* xQueueSend with a 100 ms wait: PN5180_ERR_TIMEOUT when the queue stays full
QueueSend(queue, cmd) ==
    IF Len(queue) >= CONFIG_PN5180_COMMAND_QUEUE_SIZE
        THEN [queue |-> queue, ret |-> PN5180_ERR_TIMEOUT]
    ELSE [queue |-> Append(queue, cmd), ret |-> PN5180_OK]

Command(type, protocols) == [type |-> type, protocols |-> protocols]

pn5180_set_card_callback(d, callback, user_data) ==
    [d EXCEPT !.card_callback = callback, !.callback_user_data = user_data]

\* the application's calls are made on a handle, and the model lets at most
\* MaxPending commands wait
CanCall == init_done /\ Len(command_queue) < MaxPending

pn5180_start_scanning(d, queue, protocols, callback, user_data) ==
    LET s == QueueSend(queue, Command("CMD_START_SCAN", protocols))
    IN  [dev |-> pn5180_set_card_callback(d, callback, user_data),
         queue |-> s.queue, ret |-> s.ret]

pn5180_stop_scanning(d, queue) ==
    LET s == QueueSend(queue, Command("CMD_STOP_SCAN", 0))
    IN  [dev |-> d, queue |-> s.queue, ret |-> s.ret]

\* pn5180_sleep, pn5180_wakeup, pn5180_reset: enqueue and return
pn5180_enqueue(d, queue, type) ==
    LET s == QueueSend(queue, Command(type, 0))
    IN  [dev |-> d, queue |-> s.queue, ret |-> s.ret]

ApiResult(op, r) ==
    /\ dev' = r.dev
    /\ command_queue' = r.queue
    /\ ev' = Event(op, r.ret, 0)
    /\ UNCHANGED <<chip, worker_pc, init_done, irq_fault, tested, sketch, spi, bringup, tick, reading,
                   since>>

StartScanning ==
    /\ CanCall
    /\ \E protocols \in ScanMasks, callback \in Callbacks :
         ApiResult("pn5180_start_scanning",
                   pn5180_start_scanning(dev, command_queue, protocols, callback,
                                        CardContext(callback)))

StopScanning ==
    /\ CanCall
    /\ ApiResult("pn5180_stop_scanning", pn5180_stop_scanning(dev, command_queue))

SetCardCallback ==
    /\ init_done
    /\ \E callback \in Callbacks :
         /\ dev' = pn5180_set_card_callback(dev, callback, CardContext(callback))
         /\ ev' = Event("pn5180_set_card_callback", PN5180_OK, 0)
    /\ UNCHANGED <<chip, command_queue, worker_pc, init_done, irq_fault, tested, sketch, spi,
                   bringup, tick, reading, since>>

Sleep ==
    /\ CanCall
    /\ ApiResult("pn5180_sleep", pn5180_enqueue(dev, command_queue, "CMD_SLEEP"))

Wakeup ==
    /\ CanCall
    /\ ApiResult("pn5180_wakeup", pn5180_enqueue(dev, command_queue, "CMD_WAKEUP"))

Reset ==
    /\ CanCall
    /\ ApiResult("pn5180_reset", pn5180_enqueue(dev, command_queue, "CMD_RESET"))

\* ------------------------------------------------------------------------
\* pn5180_state_task: one loop iteration is a command step followed by a
\* state step
\* ------------------------------------------------------------------------

\* xQueueReceive finds the queue empty
NoCommand ==
    /\ worker_pc = "cmd"
    /\ command_queue = <<>>
    /\ worker_pc' = "state"
    /\ ev' = Event("xQueueReceive", PN5180_OK, 0)
    /\ UNCHANGED <<dev, chip, command_queue, init_done, irq_fault, tested, sketch, spi, bringup, tick,
                   reading, since>>

\* xQueueReceive yields a command of the given type
Received(type) ==
    /\ worker_pc = "cmd"
    /\ command_queue # <<>>
    /\ Head(command_queue).type = type

\* the worker taking the newest command instead of the oldest
Handled_NewestFirst(type, o) ==
    /\ dev' = o.dev
    /\ chip' = o.chip
    /\ command_queue' = SubSeq(command_queue, 1, Len(command_queue) - 1)
    /\ worker_pc' = "state"
    /\ ev' = Event(type, o.ret, o.bus)
    /\ UNCHANGED <<init_done, irq_fault, tested, sketch, spi, bringup, tick, reading, since>>

\* pn5180_handle_command has run the handler with outcome o
Handled(type, o) ==
    /\ dev' = o.dev
    /\ chip' = o.chip
    /\ command_queue' = Tail(command_queue)
    /\ worker_pc' = "state"
    /\ ev' = Event(type, o.ret, o.bus)
    /\ UNCHANGED <<init_done, irq_fault, tested, sketch, spi, bringup, tick, reading, since>>

CmdStartScan ==
    /\ Received("CMD_START_SCAN")
    /\ Handled("CMD_START_SCAN",
               pn5180_cmd_start_scan(dev, chip, Head(command_queue).protocols))

CmdStopScan ==
    /\ Received("CMD_STOP_SCAN")
    /\ \E r1, r2 \in BOOLEAN :
         Handled("CMD_STOP_SCAN", pn5180_cmd_stop_scan(dev, chip, r1, r2))

CmdSleep ==
    /\ Received("CMD_SLEEP")
    /\ \E r1, r2, r3 \in BOOLEAN :
         Handled("CMD_SLEEP", pn5180_cmd_sleep(dev, chip, r1, r2, r3))

CmdWakeup ==
    /\ Received("CMD_WAKEUP")
    /\ \E r1, r2 \in BOOLEAN :
         Handled("CMD_WAKEUP", pn5180_cmd_wakeup(dev, chip, r1, r2))

CmdReset ==
    /\ Received("CMD_RESET")
    /\ \E r1 \in BOOLEAN :
         Handled("CMD_RESET", pn5180_cmd_reset(dev, chip, r1))

\* the switch on dev->state is about to run the handler of the given state
InState(state) ==
    /\ worker_pc = "state"
    /\ dev.state = state

\* the handler has run with result s
Stepped(state, s) ==
    /\ dev' = s.dev
    /\ chip' = s.chip
    /\ worker_pc' = IF s.hang THEN "hung" ELSE "cmd"
    /\ ev' = [op |-> state, ret |-> PN5180_OK, bus |-> s.bus,
              called |-> s.called, cb |-> IF s.called THEN dev.card_callback ELSE 0,
              err |-> s.err, card |-> s.card, rx_length |-> s.rx_length,
              read_ok |-> FALSE, answer |-> <<>>, proto |-> 0,
              user_data |-> IF s.called THEN dev.callback_user_data ELSE 0]
    /\ UNCHANGED <<command_queue, init_done, irq_fault, tested, sketch, spi, bringup, tick, reading, since>>

StateUninitialized ==
    /\ InState("UNINITIALIZED")
    /\ Stepped("UNINITIALIZED", Step(dev, chip, 0))

StateResetting ==
    /\ InState("RESETTING")
    /\ \E r \in BOOLEAN : Stepped("RESETTING", pn5180_state_resetting(dev, chip, r))

StateIdle ==
    /\ InState("IDLE")
    /\ Stepped("IDLE", pn5180_state_idle(dev, chip))

StateConfiguring ==
    /\ InState("CONFIGURING")
    /\ \E r1, r2, r4 \in BOOLEAN :
         Stepped("CONFIGURING", pn5180_state_configuring(dev, chip, r1, r2, r4))

StateScanning ==
    /\ InState("SCANNING")
    /\ \E f \in 0..(SwitchAccesses + DetectAccesses) :
         Stepped("SCANNING", pn5180_state_scanning(dev, chip, f))

\* what the read of IRQ_STATUS can yield in the Transmitting state
TxIrqRead(r, irq_status) ==
    irq_fault = "tx_error" => (r /\ irq_status = PN5180_IRQ_STATUS_TX_ERROR)

StateTransmitting ==
    /\ InState("TRANSMITTING")
    /\ \E r \in BOOLEAN, irq_status \in IrqReads :
         /\ TxIrqRead(r, irq_status)
         /\ Stepped("TRANSMITTING", pn5180_state_transmitting(dev, chip, r, irq_status))

StateReceiving ==
    /\ InState("RECEIVING")
    /\ \E r \in BOOLEAN, irq_status \in IrqReads :
         Stepped("RECEIVING", pn5180_state_receiving(dev, chip, r, irq_status))

StateProcessing ==
    /\ InState("PROCESSING")
    /\ \E r \in BOOLEAN, data \in TagAnswers, rf_status \in RfStatusReads :
         LET s == pn5180_state_processing(dev, chip, r, data, rf_status)
         IN  /\ dev' = s.dev
             /\ chip' = s.chip
             /\ worker_pc' = "cmd"
             /\ ev' = [op |-> "PROCESSING", ret |-> PN5180_OK, bus |-> s.bus,
                       called |-> s.called,
                       cb |-> IF s.called THEN dev.card_callback ELSE 0,
                       err |-> s.err, card |-> s.card, rx_length |-> s.rx_length,
                       read_ok |-> r, answer |-> IF r THEN data ELSE <<>>,
                       proto |-> dev.current_protocol_index,
                       user_data |-> IF s.called THEN dev.callback_user_data ELSE 0]
    /\ UNCHANGED <<command_queue, init_done, irq_fault, tested, sketch, spi, bringup, tick, reading, since>>

StateError ==
    /\ InState("ERROR")
    /\ Stepped("ERROR", pn5180_state_error(dev, chip))

StateSleep ==
    /\ InState("SLEEP")
    /\ Stepped("SLEEP", pn5180_state_sleep(dev, chip))

StateWakingUp ==
    /\ InState("WAKING_UP")
    /\ Stepped("WAKING_UP", pn5180_state_waking_up(dev, chip))

Next ==
    \/ InitFinish
    \/ Tick
    \/ StartScanning
    \/ StopScanning
    \/ SetCardCallback
    \/ Sleep
    \/ Wakeup
    \/ Reset
    \/ NoCommand
    \/ CmdStartScan
    \/ CmdStopScan
    \/ CmdSleep
    \/ CmdWakeup
    \/ CmdReset
    \/ StateUninitialized
    \/ StateResetting
    \/ StateIdle
    \/ StateConfiguring
    \/ StateScanning
    \/ StateTransmitting
    \/ StateReceiving
    \/ StateProcessing
    \/ StateError
    \/ StateSleep
    \/ StateWakingUp

Spec == Init /\ [][Next]_vars

\* ------------------------------------------------------------------------
\* The validators applied to one response
\* ------------------------------------------------------------------------

\* String(b, HEX): lower-case digits without a leading zero
HexLower == <<"0", "1", "2", "3", "4", "5", "6", "7", "8", "9",
              "a", "b", "c", "d", "e", "f">>

StringHEX(b) ==
    IF b < 16 THEN <<HexLower[b + 1]>>
    ELSE <<HexLower[(b \div 16) + 1], HexLower[(b % 16) + 1]>>

toUpperCase(str) ==
    [k \in 1..Len(str) |->
        CASE str[k] = "a" -> "A" [] str[k] = "b" -> "B" [] str[k] = "c" -> "C"
          [] str[k] = "d" -> "D" [] str[k] = "e" -> "E" [] str[k] = "f" -> "F"
          [] OTHER -> str[k]]

\* the identifier as loop() prints it: two digits per byte, blanks between
RECURSIVE UidString(_, _, _)
UidString(uidBuffer, byteIndex, uidLength) ==
    IF byteIndex >= uidLength THEN <<>>
    ELSE (IF At(uidBuffer, byteIndex) < 16 THEN <<"0">> ELSE <<>>)
         \o StringHEX(At(uidBuffer, byteIndex))
         \o (IF byteIndex < uidLength - 1 THEN <<" ">> ELSE <<>>)
         \o UidString(uidBuffer, byteIndex + 1, uidLength)

\* case MODE_NFC of loop(): s holds cardDetected, lastUID and
\* displayUpdateRequired; detected tells whether the card-detected branch ran
loopNfc(s, mem, rawLen) ==
    LET r == readCard(mem, rawLen, Zeros(10))
        newUID == toUpperCase(UidString(r.uid, 0, r.ret))
        base == [s EXCEPT !.uidBuffer = r.uid, !.uidLength = r.ret,
                          !.detected = FALSE, !.reset = FALSE]
    IN  IF r.ret > 0 THEN
            IF ~s.cardDetected \/ newUID # s.lastUID
                THEN [base EXCEPT !.detected = TRUE, !.cardDetected = TRUE,
                                  !.lastUID = newUID, !.displayUpdateRequired = TRUE]
            ELSE [base EXCEPT !.detected = TRUE]
        ELSE IF r.ret < 0 THEN
            LET b2 == [base EXCEPT !.reset = (r.ret = -2 \/ r.ret = -3)]
            IN  IF s.cardDetected
                    THEN [b2 EXCEPT !.cardDetected = FALSE, !.displayUpdateRequired = TRUE]
                ELSE b2
        ELSE IF s.cardDetected
                 THEN [base EXCEPT !.cardDetected = FALSE, !.lastUID = <<>>,
                                   !.displayUpdateRequired = TRUE]
        ELSE base

\* lengths nfc.activateTypeA reports: errors, no card, response lengths
RawLens == -2..MaxRawLen

\* bytes of the response: ATQA, SAK, identifier, and for a 10-byte
\* identifier the three bytes that follow responseBuffer in memory
AtqaBytes == {<<0, 0>>, <<255, 255>>, <<4, 0>>}
SakBytes == {8, 7}
Uid0Bytes == {<<0>>, <<CASCADE_TAG>>, <<222>>, <<255>>}
Uid12Bytes == {<<0, 0>>, <<173, 190>>, <<255, 255>>}
Uid3Bytes == {<<0>>, <<CASCADE_TAG>>, <<239>>, <<255>>}
Uid456Bytes == {<<0, 0, 0>>, <<255, 255, 255>>, <<17, 34, 51>>}
BehindBytes == {<<0, 0, 0>>, <<255, 255, 255>>, <<90, 0, 255>>}

Responses ==
    {a \o <<sak>> \o u0 \o u12 \o u3 \o u456 \o b :
        a \in AtqaBytes, sak \in SakBytes, u0 \in Uid0Bytes, u12 \in Uid12Bytes,
        u3 \in Uid3Bytes, u456 \in Uid456Bytes, b \in BehindBytes}

\* the sketch before a pass through loop(): no card shown, or the card
\* DE AD BE EF shown
SketchStates ==
    {[cardDetected |-> FALSE, lastUID |-> <<>>],
     [cardDetected |-> TRUE, lastUID |-> toUpperCase(UidString(<<222, 173, 190, 239>>, 0, 4))]}

InitValidator ==
    /\ dev = DevInit
    /\ chip = ChipInit
    /\ command_queue = <<>>
    /\ worker_pc = "cmd"
    /\ init_done = FALSE
    /\ irq_fault = "none"
    /\ tested = 0
    /\ ev = NoEvent
    /\ spi = SpiIdle
    /\ bringup = BringupOff
    /\ tick = 0
    /\ reading = ReadingOff
    /\ since = SinceOff
    /\ \E mem \in Responses, rawLen \in RawLens, s \in SketchStates :
         sketch = [pc |-> "input", responseBuffer |-> mem, rawResponseLength |-> rawLen,
                   cardDetected |-> s.cardDetected, lastUID |-> s.lastUID,
                   displayUpdateRequired |-> FALSE,
                   uidBuffer |-> Zeros(10), uidLength |-> 0,
                   detected |-> FALSE, reset |-> FALSE,
                   protocol |-> 0, result |-> [err |-> PN5180_OK, card |-> ZeroCard, called |-> FALSE]]

\* one pass through loop() in MODE_NFC with this response
LoopNfc ==
    /\ sketch.pc = "input"
    /\ sketch' = [loopNfc(sketch, sketch.responseBuffer, sketch.rawResponseLength)
                    EXCEPT !.pc = "looped"]
    /\ UNCHANGED <<dev, chip, command_queue, worker_pc, init_done, irq_fault, tested, ev, spi,
                   bringup, tick, reading, since>>

\* the driver's processing step on this response, with a callback registered
DriverProcess ==
    /\ sketch.pc = "input"
    /\ sketch.rawResponseLength >= 0
    /\ \E protocol \in {PN5180_PROTOCOL_ISO14443A, PN5180_PROTOCOL_ISO14443B,
                          PN5180_PROTOCOL_ISO15693},
          rf_status \in RfStatusReads :
         sketch' = [sketch EXCEPT
                      !.pc = "processed",
                      !.protocol = protocol,
                      !.result = ProcessResponse(protocol, sketch.responseBuffer,
                                                 sketch.rawResponseLength, rf_status, 1)]
    /\ UNCHANGED <<dev, chip, command_queue, worker_pc, init_done, irq_fault, tested, ev, spi,
                   bringup, tick, reading, since>>

NextValidator ==
    \/ LoopNfc
    \/ DriverProcess

SpecValidator == InitValidator /\ [][NextValidator]_vars

\* ------------------------------------------------------------------------
\* Properties of the validators (SpecValidator)
\* ------------------------------------------------------------------------

\* the response under validation
Resp == sketch.responseBuffer
RespLen == sketch.rawResponseLength

\* loop() has run readCard on the response
Looped == sketch.pc = "looped"

\* the driver has processed the response as the given protocol
Processed(protocol) == sketch.pc = "processed" /\ sketch.protocol = protocol

\* readCard gave the structural error, left the identifier buffer as it was
\* and loop() did not take its card-detected branch
SketchRejected ==
    /\ sketch.uidLength = READCARD_INVALID
    /\ sketch.uidBuffer = Zeros(10)
    /\ ~sketch.detected
    /\ ~sketch.cardDetected

\* the driver's validator gave the protocol error, the record holds no
\* identifier and the callback was not invoked
DriverRejected ==
    /\ sketch.result.err = PN5180_ERR_PROTOCOL
    /\ sketch.result.card.uid_len = 0
    /\ sketch.result.card.uid = Zeros(10)
    /\ ~sketch.result.called

\* C2: a response whose length is not 4, 7 or 10 bytes is answered with the
\* structural error, yields no identifier and does not reach the event sink
\* (the card-detected branch of loop(), the callback of the driver).
C2_InvalidLengthRejected ==
    RespLen \notin {4, 7, 10} =>
        /\ (Looped /\ RespLen > 0) => SketchRejected
        /\ Looped => (sketch.uidBuffer = Zeros(10) /\ ~sketch.detected)
        /\ Processed(PN5180_PROTOCOL_ISO14443A) => DriverRejected

\* a 5-byte response that is otherwise well-formed has been rejected by readCard
C2_Witness ==
    /\ Looped
    /\ RespLen = 5
    /\ Slice(Resp, 0, 7) = <<4, 0, 8, 222, 173, 190, 239>>
    /\ SketchRejected

\* the candidate identifier of the response: RespLen bytes from offset 3
IdentifierAll(b) == AllEqual(Resp, 3, RespLen, b)

\* C3: for each valid length, a response whose identifier bytes are all 0x00
\* or all 0xFF is rejected, whatever its ATQA and SAK are.
C3_BlankIdentifierRejected ==
    (RespLen \in {4, 7, 10} /\ (IdentifierAll(0) \/ IdentifierAll(255))) =>
        /\ Looped => SketchRejected
        /\ Processed(PN5180_PROTOCOL_ISO14443A) => DriverRejected

\* a 4-byte response with good ATQA and SAK and identifier FF FF FF FF has been
\* rejected by readCard
C3_Witness ==
    /\ Looped
    /\ RespLen = 4
    /\ Slice(Resp, 0, 7) = <<4, 0, 8, 255, 255, 255, 255>>
    /\ SketchRejected

\* C4: a 7-byte response whose identifier byte 3 is not the cascade tag 0x88
\* is rejected, whatever the other bytes are.
C4_CascadeTagRequired ==
    (RespLen = 7 /\ At(Resp, 3 + 3) # CASCADE_TAG) =>
        /\ Looped => SketchRejected
        /\ Processed(PN5180_PROTOCOL_ISO14443A) => DriverRejected

\* a 7-byte response that is well-formed except for byte 3 (0xEF) has been
\* rejected by readCard
C4_Witness ==
    /\ Looped
    /\ RespLen = 7
    /\ Slice(Resp, 0, 10) = <<4, 0, 8, 222, 173, 190, 239, 17, 34, 51>>
    /\ SketchRejected

\* what section 4.3 of the specification asks of a 4-byte response
WellFormed4 ==
    /\ RespLen = 4
    /\ AtqaOf(Resp) \notin {0, 65535}
    /\ At(Resp, 2) \in ValidSAKs
    /\ At(Resp, 3) \notin {0, CASCADE_TAG}
    /\ ~IdentifierAll(0)
    /\ ~IdentifierAll(255)

StateStep(state) ==
    /\ worker_pc = "state"
    /\ worker_pc' # "state"
    /\ dev.state = state

\* this step is the worker handling a command of the given type
CmdStep(type) ==
    /\ worker_pc = "cmd"
    /\ worker_pc' = "state"
    /\ command_queue # <<>>
    /\ Head(command_queue).type = type

\* this step is an API call that enqueued a command of the given type
ApiStep(type) ==
    /\ Len(command_queue') = Len(command_queue) + 1
    /\ command_queue'[Len(command_queue')].type = type

\* the validator of a protocol applied to the bytes of a processing step
Validated(protocol, answer, length) ==
    IF protocol = PN5180_PROTOCOL_ISO14443A
        THEN pn5180_process_iso14443a_response(answer, length, ZeroCard).err = PN5180_OK
    ELSE IF protocol = PN5180_PROTOCOL_ISO15693
        THEN pn5180_process_iso15693_response(answer, length, ZeroCard).err = PN5180_OK
    ELSE FALSE

\* C1: the card callback is invoked only by the processing step, and only
\* when the buffer read succeeded and the validator of the current protocol
\* accepted the bytes read in that step; never for a protocol without
\* validator.
C1_CallbackOnlyAfterValidation ==
    ev.called =>
        /\ ev.op = "PROCESSING"
        /\ ev.read_ok
        /\ ev.err = PN5180_OK
        /\ ev.proto \in {PN5180_PROTOCOL_ISO14443A, PN5180_PROTOCOL_ISO15693}
        /\ Validated(ev.proto, ev.answer, ev.rx_length)
        /\ ev.cb # 0
        /\ ev.card.protocol = ev.proto

\* a processing step has invoked the callback with an ISO15693 card
C1_Witness ==
    /\ ev.op = "PROCESSING"
    /\ ev.called
    /\ ev.proto = PN5180_PROTOCOL_ISO15693
    /\ ev.card.uid_len = 8

\* C6: with protocol mask {ISO14443A}, a detect cycle whose transmission
\* completed and whose answer is the valid response 04 00 08 DE AD BE EF ends
\* with the callback invoked for that cycle, with identifier DE AD BE EF and
\* length 4.
C6_MifareCycleReported ==
    ( /\ ev.op = "PROCESSING"
      /\ ev.read_ok
      /\ ev.proto = PN5180_PROTOCOL_ISO14443A
      /\ ev.answer = GoodMifare
      /\ dev.enabled_protocols = 1
      /\ dev.card_callback # 0 )
    => /\ ev.called
       /\ ev.card.uid_len = 4
       /\ Slice(ev.card.uid, 0, 4) = <<222, 173, 190, 239>>

\* C7: while IRQ_STATUS reports a transmit error on every attempt, each
\* transmit step returns to Scanning with the next protocol index, each
\* dispatch goes to an enabled protocol, reception and processing are never
\* reached, the callback is never invoked, and handling a stop command
\* while scanning leaves the device Idle.
C7_TxErrorCycles ==
    [][irq_fault = "tx_error" =>
        /\ StateStep("TRANSMITTING") =>
             /\ dev'.state = "SCANNING"
             /\ dev'.current_protocol_index = Inc8(dev.current_protocol_index)
        /\ StateStep("SCANNING") =>
             /\ dev'.state \in {"SCANNING", "TRANSMITTING", "IDLE"}
             /\ dev'.state = "TRANSMITTING" =>
                  HasBit(dev.enabled_protocols, 2 ^ dev'.current_protocol_index)
        /\ dev'.state \notin {"RECEIVING", "PROCESSING"}
        /\ ~ev'.called
        /\ (CmdStep("CMD_STOP_SCAN") /\ dev.scanning_enabled) =>
             (dev'.state = "IDLE" /\ ~dev'.scanning_enabled)
        /\ StateStep("IDLE") => dev'.state = "IDLE"
    ]_vars

\* under the transmit-error fault a scan went through at least one failed
\* attempt and was then stopped
C7_Witness ==
    /\ irq_fault = "tx_error"
    /\ ev.op = "CMD_STOP_SCAN"
    /\ ev.bus > 0
    /\ dev.current_protocol_index > 0
    /\ dev.state = "IDLE"
    /\ ~dev.scanning_enabled

\* C8: a stop command handled while scanning is not enabled returns success
\* and changes nothing: lifecycle state, scan-enable flag, protocol mask and
\* protocol index stay as they are and no bus access is made; the call that
\* enqueues it returns success and changes nothing either.
C8_StopWhenStoppedIsNoOp ==
    [][~dev.scanning_enabled =>
        /\ CmdStep("CMD_STOP_SCAN") =>
             /\ ev'.ret = PN5180_OK
             /\ ev'.bus = 0
             /\ dev' = dev
             /\ chip' = chip
        /\ ApiStep("CMD_STOP_SCAN") =>
             /\ ev'.ret = PN5180_OK
             /\ dev' = dev
             /\ chip' = chip
    ]_vars

\* a stop command has been handled without any bus access, in a state other
\* than Idle
C8_Witness ==
    /\ ev.op = "CMD_STOP_SCAN"
    /\ ev.ret = PN5180_OK
    /\ ev.bus = 0
    /\ ~dev.scanning_enabled
    /\ dev.state = "SLEEP"

\* C9: startScanning() while scanning is enabled returns success and changes
\* nothing: lifecycle state, protocol mask, protocol index and the registered
\* callback are the same after the call and after its command.
C9_StartWhenScanningIsNoOp ==
    [][dev.scanning_enabled =>
        /\ ApiStep("CMD_START_SCAN") =>
             /\ ev'.ret = PN5180_OK
             /\ dev'.state = dev.state
             /\ dev'.enabled_protocols = dev.enabled_protocols
             /\ dev'.current_protocol_index = dev.current_protocol_index
             /\ dev'.card_callback = dev.card_callback
        /\ CmdStep("CMD_START_SCAN") =>
             /\ ev'.ret = PN5180_OK
             /\ dev'.state = dev.state
             /\ dev'.enabled_protocols = dev.enabled_protocols
             /\ dev'.current_protocol_index = dev.current_protocol_index
             /\ dev'.card_callback = dev.card_callback
    ]_vars

\* C14: the lifecycle state and the scan-enable flag of the device change
\* only in steps of the worker; no step of an API caller (pn5180_init after
\* the worker exists, the enqueueing calls, the callback registration)
\* changes them.
C14_OnlyWorkerWritesState ==
    [][(dev'.state # dev.state \/ dev'.scanning_enabled # dev.scanning_enabled)
       => worker_pc' # worker_pc]_vars

\* C17: when the worker has handled a stop-scan command that found scanning
\* enabled, the RF field is off, in whatever state the device was and
\* whatever the outcome of the handler's bus accesses.
C17_StopTurnsFieldOff ==
    [][(CmdStep("CMD_STOP_SCAN") /\ dev.scanning_enabled) => ~chip'.rf_on]_vars

BusOps == {"pn5180_write_register_internal", "pn5180_read_register_internal",
           "pn5180_write_buffer", "pn5180_read_buffer"}

\* largest transfer of one transaction of a buffer operation
CHUNK_SIZE == 64

\* buffer lengths asked for: one chunk, a full chunk, two chunks
BufferLens == {1, CHUNK_SIZE, CHUNK_SIZE + 1}

\* chunks of a buffer transfer of the given length
Chunks(length) == (length + CHUNK_SIZE - 1) \div CHUNK_SIZE

\* SPI transactions of a bus operation: a register write is one, a register
\* read is command and data, a buffer operation is the pointer reset (a
\* register write) and the chunks
Transactions(op, length) ==
    IF op = "pn5180_write_register_internal" THEN 1
    ELSE IF op = "pn5180_read_register_internal" THEN 2
    ELSE 1 + Chunks(length)

\* what a bus operation returns for the result of pn5180_spi_transaction
BusError(esp_err) == IF esp_err # "ESP_OK" THEN PN5180_ERR_SPI ELSE PN5180_OK

\* one pass of the loop of pn5180_wait_busy after waited ms: the line is
\* free, the wait has timed out, or the task sleeps one tick
pn5180_wait_busy(busy, waited, timeout_ms) ==
    IF ~busy THEN [ret |-> PN5180_OK, polling |-> FALSE, waited |-> waited]
    ELSE IF waited > timeout_ms
        THEN [ret |-> PN5180_ERR_TIMEOUT, polling |-> FALSE, waited |-> waited]
    ELSE [ret |-> PN5180_OK, polling |-> TRUE, waited |-> waited + 1]

\* the BUSY line is stuck high, or the chip drives it
InitBus ==
    /\ dev = DevInit
    /\ chip = ChipInit
    /\ command_queue = <<>>
    /\ worker_pc = "cmd"
    /\ init_done = FALSE
    /\ irq_fault = "none"
    /\ tested = 0
    /\ ev = NoEvent
    /\ bringup = BringupOff
    /\ tick = 0
    /\ reading = ReadingOff
    /\ since = SinceOff
    /\ sketch = SketchIdle
    /\ \E stuck \in BOOLEAN, busy \in BOOLEAN :
         /\ stuck => busy
         /\ spi = [pc |-> "idle", op |-> "none", left |-> 0, spi_mutex |-> "free",
                   busy |-> busy, stuck |-> stuck, waited |-> 0, ret |-> PN5180_OK]

BusUnchanged ==
    UNCHANGED <<dev, chip, command_queue, worker_pc, init_done, irq_fault, tested, ev, sketch,
                bringup, tick, reading, since>>

\* the worker starts a bus operation
BusCall ==
    /\ spi.pc \in {"idle", "done"}
    /\ \E op \in BusOps, length \in BufferLens :
         spi' = [spi EXCEPT !.pc = "take", !.op = op,
                            !.left = Transactions(op, length),
                            !.waited = 0, !.ret = PN5180_OK]
    /\ BusUnchanged

\* pn5180_spi_transaction: xSemaphoreTake succeeds
SpiTake ==
    /\ spi.pc = "take"
    /\ spi.spi_mutex = "free"
    /\ spi' = [spi EXCEPT !.pc = "wait", !.spi_mutex = "worker", !.waited = 0]
    /\ BusUnchanged

\* pn5180_spi_transaction: xSemaphoreTake times out, the mutex being held
\* by another task
SpiTakeTimeout ==
    /\ spi.pc = "take"
    /\ spi.spi_mutex = "other"
    /\ spi' = [spi EXCEPT !.pc = "done", !.ret = BusError("ESP_ERR_TIMEOUT")]
    /\ BusUnchanged

\* pn5180_spi_transaction: one pass of pn5180_wait_busy, and the exit of the
\* transaction when the wait timed out
WaitBusy ==
    /\ spi.pc = "wait"
    /\ LET w == pn5180_wait_busy(spi.busy, spi.waited, CONFIG_PN5180_BUSY_TIMEOUT_MS)
       IN  spi' = IF w.polling THEN [spi EXCEPT !.waited = w.waited]
                  ELSE IF w.ret # PN5180_OK
                      THEN [spi EXCEPT !.pc = "done", !.spi_mutex = "free",
                                       !.ret = BusError("ESP_ERR_TIMEOUT")]
                  ELSE [spi EXCEPT !.pc = "transmit"]
    /\ BusUnchanged

\* pn5180_spi_transaction: spi_device_transmit, xSemaphoreGive, and the
\* caller's next transaction or return
SpiTransmit ==
    /\ spi.pc = "transmit"
    /\ \E esp_err \in {"ESP_OK", "ESP_FAIL"} :
         spi' = IF BusError(esp_err) # PN5180_OK
                    THEN [spi EXCEPT !.pc = "done", !.spi_mutex = "free",
                                     !.ret = BusError(esp_err)]
                ELSE IF spi.left = 1
                    THEN [spi EXCEPT !.pc = "done", !.spi_mutex = "free",
                                     !.left = 0, !.ret = PN5180_OK]
                ELSE [spi EXCEPT !.pc = "take", !.spi_mutex = "free", !.left = @ - 1]
    /\ BusUnchanged

\* the chip raises or lowers the BUSY line
BusyChange ==
    /\ spi.pc # "off"
    /\ ~spi.stuck
    /\ spi' = [spi EXCEPT !.busy = ~@]
    /\ BusUnchanged

\* another task takes and gives spi_mutex around its own transaction
OtherTake ==
    /\ spi.pc # "off"
    /\ spi.spi_mutex = "free"
    /\ spi' = [spi EXCEPT !.spi_mutex = "other"]
    /\ BusUnchanged

OtherGive ==
    /\ spi.pc # "off"
    /\ spi.spi_mutex = "other"
    /\ spi' = [spi EXCEPT !.spi_mutex = "free"]
    /\ BusUnchanged

NextBus ==
    \/ BusCall
    \/ SpiTake
    \/ SpiTakeTimeout
    \/ WaitBusy
    \/ SpiTransmit
    \/ BusyChange
    \/ OtherTake
    \/ OtherGive

SpecBus == InitBus /\ [][NextBus]_vars

\* ------------------------------------------------------------------------
\* Properties of the bus transport (SpecBus)
\* ------------------------------------------------------------------------

\* C10: with the BUSY line stuck high, every bus operation that gets the bus
\* lock returns the Timeout error once the busy bound has passed, with the
\* bus lock released.
C10_BusyTimeoutReported ==
    (spi.stuck /\ spi.pc = "done" /\ spi.waited > 0) =>
        /\ spi.ret = PN5180_ERR_TIMEOUT
        /\ spi.waited = CONFIG_PN5180_BUSY_TIMEOUT_MS + 1
        /\ spi.spi_mutex # "worker"

\* the worker is between two transfers of one bus operation: the command
\* transfer of a register read or a transfer of a buffer operation is done
\* and its last transfer is still to come
BetweenTransfers ==
    /\ spi.pc = "take"
    /\ spi.op \in BusOps \ {"pn5180_write_register_internal"}
    /\ spi.left = 1

\* C15: while the worker is between two transfers of one bus operation, no
\* other context is inside an SPI transaction of its own.
C15_BusOperationsNotInterleaved ==
    BetweenTransfers => spi.spi_mutex # "other"

\* ------------------------------------------------------------------------
\* The command path with several commands waiting: an application that
\* starts scanning for ISO14443A with a callback, stops, and asks for sleep,
\* wake-up and reset, while up to MaxQueued commands wait in the queue
\* ------------------------------------------------------------------------

MaxQueued == 2

InitQueue ==
    /\ dev = DevInit
    /\ chip = ChipInit
    /\ command_queue = <<>>
    /\ worker_pc = "cmd"
    /\ init_done = FALSE
    /\ irq_fault = "none"
    /\ tested = 0
    /\ ev = NoEvent
    /\ bringup = BringupOff
    /\ tick = 0
    /\ reading = ReadingOff
    /\ since = SinceOff
    /\ sketch = SketchIdle
    /\ spi = SpiIdle

CanQueue == init_done /\ Len(command_queue) < MaxQueued

QueueStartScanning ==
    /\ CanQueue
    /\ ApiResult("pn5180_start_scanning",
                 pn5180_start_scanning(dev, command_queue, 1, 1,
                                        CardContext(1)))

QueueStopScanning ==
    /\ CanQueue
    /\ ApiResult("pn5180_stop_scanning", pn5180_stop_scanning(dev, command_queue))

QueueSleep ==
    /\ CanQueue
    /\ ApiResult("pn5180_sleep", pn5180_enqueue(dev, command_queue, "CMD_SLEEP"))

QueueWakeup ==
    /\ CanQueue
    /\ ApiResult("pn5180_wakeup", pn5180_enqueue(dev, command_queue, "CMD_WAKEUP"))

QueueReset ==
    /\ CanQueue
    /\ ApiResult("pn5180_reset", pn5180_enqueue(dev, command_queue, "CMD_RESET"))

NextQueue ==
    \/ InitFinish
    \/ Tick
    \/ QueueStartScanning
    \/ QueueStopScanning
    \/ QueueSleep
    \/ QueueWakeup
    \/ QueueReset
    \/ NoCommand
    \/ CmdStartScan
    \/ CmdStopScan
    \/ CmdSleep
    \/ CmdWakeup
    \/ CmdReset
    \/ StateUninitialized
    \/ StateResetting
    \/ StateIdle
    \/ StateConfiguring
    \/ StateScanning
    \/ StateTransmitting
    \/ StateReceiving
    \/ StateProcessing
    \/ StateError
    \/ StateSleep
    \/ StateWakingUp

SpecQueue == InitQueue /\ [][NextQueue]_vars

\* C11: the queue changes only by an API call appending a command behind
\* those already waiting, or by the worker taking the oldest command at the
\* start of a loop iteration and handling it; after taking one command the
\* worker runs a state handler before it looks at the queue again, and no
\* state handler step takes a command.
C11_CommandsInOrder ==
    [][/\ command_queue' # command_queue =>
            \/ /\ worker_pc = "cmd"
               /\ worker_pc' = "state"
               /\ command_queue # <<>>
               /\ command_queue' = Tail(command_queue)
               /\ ev'.op = Head(command_queue).type
            \/ /\ worker_pc' = worker_pc
               /\ Len(command_queue') = Len(command_queue) + 1
               /\ SubSeq(command_queue', 1, Len(command_queue)) = command_queue
       /\ worker_pc = "state" => Len(command_queue') >= Len(command_queue)
      ]_vars

\* a start command has been handled while a stop command enqueued behind it
\* is still waiting
C11_Witness ==
    /\ ev.op = "CMD_START_SCAN"
    /\ command_queue # <<>>
    /\ Head(command_queue).type = "CMD_STOP_SCAN"

\* ------------------------------------------------------------------------
\* Scanning and reading: an application that starts and stops scanning and
\* asks for single reads
\* ------------------------------------------------------------------------

\* how the wait of the read-UID handler for a response ends
PollEnds == {"read_failed", "rx_done", "rx_error", "timeout"}

\* the read handler reporting its card through the card callback as well
pn5180_cmd_read_uid_Notifies(d, c, protocol, timeout_ms, f, poll, r, data, card_info) ==
    LET sw == pn5180_switch_protocol(protocol, f)
        det == pn5180_send_detect_command(protocol, f - SwitchAccesses)
        n == sw.bus + det.bus
        rd == pn5180_read_buffer(data, CONFIG_PN5180_RX_BUFFER_SIZE, r)
        card0 == [card_info EXCEPT !.protocol = protocol]
        v == IF protocol = PN5180_PROTOCOL_ISO14443A
                 THEN pn5180_process_iso14443a_response(rd.buffer, rd.length, card0)
             ELSE IF protocol = PN5180_PROTOCOL_ISO15693
                 THEN pn5180_process_iso15693_response(rd.buffer, rd.length, card0)
             ELSE [err |-> PN5180_ERR_UNSUPPORTED, card |-> card0]
        result(dd, ret, bus, card) ==
            [dev |-> dd, chip |-> c, ret |-> ret, bus |-> bus, card |-> card,
             called |-> (ret = PN5180_OK /\ dd.card_callback # 0)]
    IN  IF sw.err # PN5180_OK THEN result(d, sw.err, sw.bus, card_info)
        ELSE IF det.err # PN5180_OK THEN result(d, det.err, n, card_info)
        ELSE IF poll = "read_failed" THEN result(d, PN5180_ERR_SPI, n + 1, card_info)
        ELSE IF poll = "rx_error" THEN result(d, PN5180_ERR_PROTOCOL, n + 2, card_info)
        ELSE IF poll = "timeout"
            THEN result(Elapse(d, timeout_ms + 1), PN5180_ERR_TIMEOUT, n + 1, card_info)
        ELSE IF rd.err # PN5180_OK THEN result(d, rd.err, n + 3, card_info)
        ELSE result(d, v.err, n + 3, v.card)

\* The read-UID handler.  f: the bus access of pn5180_switch_protocol and
\* pn5180_send_detect_command that fails (0: none); poll: how the wait for
\* the response ends; r, data: the buffer read and the receive buffer.
\* Yields, besides the outcome, the caller's record as the handler leaves it.
\* The handler writes no field of the device and invokes no callback.
pn5180_cmd_read_uid(d, c, protocol, timeout_ms, f, poll, r, data, card_info) ==
    LET sw == pn5180_switch_protocol(protocol, f)
        det == pn5180_send_detect_command(protocol, f - SwitchAccesses)
        n == sw.bus + det.bus
        rd == pn5180_read_buffer(data, CONFIG_PN5180_RX_BUFFER_SIZE, r)
        card0 == [card_info EXCEPT !.protocol = protocol]
        v == IF protocol = PN5180_PROTOCOL_ISO14443A
                 THEN pn5180_process_iso14443a_response(rd.buffer, rd.length, card0)
             ELSE IF protocol = PN5180_PROTOCOL_ISO15693
                 THEN pn5180_process_iso15693_response(rd.buffer, rd.length, card0)
             ELSE [err |-> PN5180_ERR_UNSUPPORTED, card |-> card0]
        result(dd, ret, bus, card) ==
            [dev |-> dd, chip |-> c, ret |-> ret, bus |-> bus, card |-> card,
             called |-> FALSE]
    IN  IF sw.err # PN5180_OK THEN result(d, sw.err, sw.bus, card_info)
        ELSE IF det.err # PN5180_OK THEN result(d, det.err, n, card_info)
        ELSE IF poll = "read_failed" THEN result(d, PN5180_ERR_SPI, n + 1, card_info)
        ELSE IF poll = "rx_error" THEN result(d, PN5180_ERR_PROTOCOL, n + 2, card_info)
        ELSE IF poll = "timeout"
            THEN result(Elapse(d, timeout_ms + 1), PN5180_ERR_TIMEOUT, n + 1, card_info)
        ELSE IF rd.err # PN5180_OK THEN result(d, rd.err, n + 3, card_info)
        ELSE result(d, v.err, n + 3, v.card)

\* pn5180_read_uid: enqueue a read of the given protocol
pn5180_enqueue_read_uid(d, queue, protocol, timeout_ms) ==
    LET s == QueueSend(queue, [type |-> "CMD_READ_UID", protocols |-> 0,
                               protocol |-> protocol, timeout_ms |-> timeout_ms])
    IN  [dev |-> d, queue |-> s.queue, ret |-> s.ret]

\* protocols the application reads synchronously: one with a validator, one
\* the driver cannot switch to
ReadProtocols == {PN5180_PROTOCOL_ISO15693}

ReadUid ==
    /\ CanCall
    /\ \E protocol \in ReadProtocols :
         ApiResult("pn5180_read_uid",
                   pn5180_enqueue_read_uid(dev, command_queue, protocol,
                                           CONFIG_PN5180_DETECT_TIMEOUT_15693_MS))

\* the ways one read can go: a bus access of the set-up fails; the poll ends
\* without a response; the buffer read fails; a response is read
ReadRuns ==
    [f : 1..(SwitchAccesses + DetectAccesses), poll : {"timeout"}, r : {FALSE},
     data : {Zeros(13)}]
    \cup [f : {0}, poll : PollEnds, r : {FALSE}, data : {Zeros(13)}]
    \cup [f : {0}, poll : {"rx_done"}, r : {TRUE}, data : TagAnswers]

CmdReadUid ==
    /\ Received("CMD_READ_UID")
    /\ \E run \in ReadRuns :
         LET o == pn5180_cmd_read_uid(dev, chip, Head(command_queue).protocol,
                                      Head(command_queue).timeout_ms,
                                      run.f, run.poll, run.r, run.data, ZeroCard)
         IN  /\ dev' = o.dev
             /\ chip' = o.chip
             /\ command_queue' = Tail(command_queue)
             /\ worker_pc' = "state"
             /\ ev' = [Event("CMD_READ_UID", o.ret, o.bus) EXCEPT
                         !.called = o.called, !.card = o.card,
                         !.proto = Head(command_queue).protocol]
    /\ UNCHANGED <<init_done, irq_fault, tested, sketch, spi, bringup, tick, reading, since>>

NextRead ==
    \/ InitFinish
    \/ Tick
    \/ StartScanning
    \/ StopScanning
    \/ ReadUid
    \/ NoCommand
    \/ CmdStartScan
    \/ CmdStopScan
    \/ CmdReadUid
    \/ StateUninitialized
    \/ StateIdle
    \/ StateConfiguring
    \/ StateScanning
    \/ StateTransmitting
    \/ StateReceiving
    \/ StateProcessing
    \/ StateError

SpecRead == InitQueue /\ [][NextRead]_vars

\* C13: the card callback is invoked only by a step of the worker, taken in
\* the Processing state, for the detection that step has just validated, and
\* the worker has returned from it to Scanning, the index moved on, before
\* it can complete another detection; neither an API call nor the read-UID
\* handler invokes it.
C13_CallbackOnWorkerInOrder ==
    [][ev'.called =>
         /\ worker_pc = "state"
         /\ worker_pc' = "cmd"
         /\ dev.state = "PROCESSING"
         /\ ev'.op = "PROCESSING"
         /\ ev'.proto = dev.current_protocol_index
         /\ ev'.card.protocol = dev.current_protocol_index
         /\ dev'.state = "SCANNING"
         /\ dev'.current_protocol_index = Inc8(dev.current_protocol_index)
      ]_vars

\* the callback is invoked for a detection while a read-UID command waits
C13_Witness ==
    /\ ev.called
    /\ ev.op = "PROCESSING"
    /\ command_queue # <<>>
    /\ Head(command_queue).type = "CMD_READ_UID"

\* ------------------------------------------------------------------------
\* The application calling while the worker does not get to run: commands
\* pile up until the queue holds CONFIG_PN5180_COMMAND_QUEUE_SIZE of them
\* ------------------------------------------------------------------------

BacklogStartScanning ==
    /\ init_done
    /\ \E callback \in Callbacks :
         ApiResult("pn5180_start_scanning",
                   pn5180_start_scanning(dev, command_queue, 1, callback,
                                        CardContext(callback)))

BacklogStopScanning ==
    /\ init_done
    /\ ApiResult("pn5180_stop_scanning", pn5180_stop_scanning(dev, command_queue))

NextBacklog ==
    \/ InitFinish
    \/ BacklogStartScanning
    \/ BacklogStopScanning



SpecBacklog == InitQueue /\ [][NextBacklog]_vars

\* C12: a startScanning() or stopScanning() call made while the queue is
\* full returns the Timeout error, adds no command and leaves the device
\* (state, scan flag, protocol mask, card callback) as it was.
C12_FullQueueCallChangesNothing ==
    [][(/\ Len(command_queue) >= CONFIG_PN5180_COMMAND_QUEUE_SIZE
        /\ ev'.op \in {"pn5180_start_scanning", "pn5180_stop_scanning"})
       => /\ ev'.ret = PN5180_ERR_TIMEOUT
          /\ command_queue' = command_queue
          /\ dev' = dev]_vars

\* ------------------------------------------------------------------------
\* The stop handler step by step: device_mutex, and the bus transactions of
\* its register accesses, with pn5180_is_busy called from another task
\* ------------------------------------------------------------------------

\* the device when the stop command is taken: stopped, or scanning
StopEntries ==
    {[DevInit EXCEPT !.state = "IDLE"]}
    \cup {[DevInit EXCEPT !.state = state, !.scanning_enabled = TRUE,
                          !.enabled_protocols = 1] :
            state \in {"SCANNING", "TRANSMITTING"}}

InitLock ==
    /\ dev \in StopEntries
    /\ chip = [ChipInit EXCEPT !.rf_on = dev.scanning_enabled]
    /\ command_queue = <<Command("CMD_STOP_SCAN", 0)>>
    /\ worker_pc = "cmd"
    /\ init_done = TRUE
    /\ irq_fault = "none"
    /\ tested = 0
    /\ ev = NoEvent
    /\ bringup = BringupOff
    /\ tick = 0
    /\ reading = ReadingOff
    /\ since = SinceOff
    /\ sketch = SketchIdle
    /\ \E stuck \in BOOLEAN, busy \in BOOLEAN :
         /\ stuck => busy
         /\ spi = [pc |-> "idle", op |-> "none", left |-> 0, spi_mutex |-> "free",
                   busy |-> busy, stuck |-> stuck, waited |-> 0, ret |-> PN5180_OK]

\* the handler starts a bus operation
BusStart(op) ==
    spi' = [spi EXCEPT !.pc = "take", !.op = op, !.left = Transactions(op, 0),
                       !.waited = 0, !.ret = PN5180_OK]

\* xQueueReceive yields the stop command; xSemaphoreTake(device_mutex)
StopTake ==
    /\ Received("CMD_STOP_SCAN")
    /\ dev.device_mutex = "free"
    /\ dev' = [dev EXCEPT !.device_mutex = "worker"]
    /\ command_queue' = Tail(command_queue)
    /\ worker_pc' = "stop_check"
    /\ UNCHANGED <<chip, init_done, irq_fault, tested, ev, sketch, spi, bringup, tick, reading, since>>

\* the test of scanning_enabled: return, or clear the flag and read RF_CONTROL
StopCheck ==
    /\ worker_pc = "stop_check"
    /\ IF ~dev.scanning_enabled
           THEN /\ dev' = [dev EXCEPT !.device_mutex = "free"]
                /\ worker_pc' = "state"
                /\ ev' = Event("CMD_STOP_SCAN", PN5180_OK, 0)
                /\ UNCHANGED spi
       ELSE /\ dev' = [dev EXCEPT !.scanning_enabled = FALSE]
            /\ worker_pc' = "stop_read"
            /\ BusStart("pn5180_read_register_internal")
            /\ UNCHANGED ev
    /\ UNCHANGED <<chip, command_queue, init_done, irq_fault, tested, sketch, bringup, tick, reading,
                   since>>

\* the read of RF_CONTROL has returned: write the register, or skip the write
StopRead ==
    /\ worker_pc = "stop_read"
    /\ spi.pc = "done"
    /\ IF spi.ret = PN5180_OK
           THEN /\ worker_pc' = "stop_write"
                /\ BusStart("pn5180_write_register_internal")
       ELSE /\ worker_pc' = "stop_finish"
            /\ spi' = [spi EXCEPT !.pc = "idle"]
    /\ UNCHANGED <<dev, chip, command_queue, init_done, irq_fault, tested, ev, sketch, bringup, tick,
                   reading, since>>

\* the write of RF_CONTROL has returned
StopWrite ==
    /\ worker_pc = "stop_write"
    /\ spi.pc = "done"
    /\ worker_pc' = "stop_finish"
    /\ chip' = IF spi.ret = PN5180_OK THEN [chip EXCEPT !.rf_on = FALSE] ELSE chip
    /\ spi' = [spi EXCEPT !.pc = "idle"]
    /\ UNCHANGED <<dev, command_queue, init_done, irq_fault, tested, ev, sketch, bringup, tick,
                   reading, since>>

\* state = IDLE, xSemaphoreGive(device_mutex), return
StopFinish ==
    /\ worker_pc = "stop_finish"
    /\ dev' = [dev EXCEPT !.state = "IDLE", !.device_mutex = "free"]
    /\ worker_pc' = "state"
    /\ ev' = Event("CMD_STOP_SCAN", PN5180_OK, 0)
    /\ UNCHANGED <<chip, command_queue, init_done, irq_fault, tested, sketch, spi, bringup, tick,
                   reading, since>>

\* pn5180_is_busy on another task: xSemaphoreTake(device_mutex)
IsBusyTake ==
    /\ init_done
    /\ dev.device_mutex = "free"
    /\ dev' = [dev EXCEPT !.device_mutex = "reader"]
    /\ UNCHANGED <<chip, command_queue, worker_pc, init_done, irq_fault, tested, ev, sketch, spi,
                   bringup, tick, reading, since>>

\* pn5180_is_busy: read of dev->state, xSemaphoreGive(device_mutex), return
IsBusyGive ==
    /\ dev.device_mutex = "reader"
    /\ dev' = [dev EXCEPT !.device_mutex = "free"]
    /\ ev' = Event("pn5180_is_busy", IF dev.state # "IDLE" THEN 1 ELSE 0, 0)
    /\ UNCHANGED <<chip, command_queue, worker_pc, init_done, irq_fault, tested, sketch, spi,
                   bringup, tick, reading, since>>

NextLock ==
    \/ StopTake
    \/ StopCheck
    \/ StopRead
    \/ StopWrite
    \/ StopFinish
    \/ IsBusyTake
    \/ IsBusyGive
    \/ SpiTake
    \/ SpiTakeTimeout
    \/ WaitBusy
    \/ SpiTransmit
    \/ BusyChange
    \/ OtherTake
    \/ OtherGive

SpecLock == InitLock /\ [][NextLock]_vars

\* the worker is inside a bus transaction: waiting for the bus lock, waiting
\* for the BUSY line, or transferring
InBusTransaction == spi.pc \in {"take", "wait", "transmit"}

\* C16: the device-state lock is not held by the worker while it is inside a
\* bus transaction, so that pn5180_is_busy never has to wait for bus I/O.
C16_DeviceLockNotHeldDuringBus ==
    InBusTransaction => dev.device_mutex # "worker"

\* ------------------------------------------------------------------------
\* pn5180_init step by step: each bring-up step succeeds or fails; a failed
\* step is followed by the releases written on its failure path
\* ------------------------------------------------------------------------

\* the bring-up steps in the order of pn5180_init
InitSteps ==
    <<"calloc", "spi_mutex", "device_mutex", "command_queue",
      "pn5180_gpio_init", "pn5180_spi_init", "pn5180_reset_hardware",
      "pn5180_check_communication", "pn5180_load_eeprom_data",
      "pn5180_configure_defaults", "pn5180_configure_protocols", "xTaskCreate">>

\* what a step that succeeds leaves allocated
Acquired(step) ==
    IF step = "calloc" THEN {"dev"}
    ELSE IF step \in {"spi_mutex", "device_mutex", "command_queue"} THEN {step}
    ELSE IF step = "pn5180_gpio_init" THEN {"gpio"}
    ELSE IF step = "pn5180_spi_init" THEN {"spi"}
    ELSE IF step = "xTaskCreate" THEN {"state_task"}
    ELSE {}

\* a failure of pn5180_load_eeprom_data is logged and ignored
Fatal(step) == step # "pn5180_load_eeprom_data"

\* the failure path of gpio initialization without the deletion of the queue
OnFailure_KeepsQueue(step) ==
    IF step = "calloc" THEN <<>>
    ELSE IF step = "spi_mutex" THEN <<"dev">>
    ELSE IF step = "device_mutex" THEN <<"spi_mutex", "dev">>
    ELSE IF step = "command_queue" THEN <<"spi_mutex", "device_mutex", "dev">>
    ELSE IF step = "pn5180_gpio_init"
        THEN <<"spi_mutex", "device_mutex", "dev">>
    ELSE IF step = "pn5180_spi_init"
        THEN <<"gpio", "spi_mutex", "device_mutex", "command_queue", "dev">>
    ELSE <<"spi", "gpio", "spi_mutex", "device_mutex", "command_queue", "dev">>

\* the releases on the failure path of a step, in the order written
OnFailure(step) ==
    IF step = "calloc" THEN <<>>
    ELSE IF step = "spi_mutex" THEN <<"dev">>
    ELSE IF step = "device_mutex" THEN <<"spi_mutex", "dev">>
    ELSE IF step = "command_queue" THEN <<"spi_mutex", "device_mutex", "dev">>
    ELSE IF step = "pn5180_gpio_init"
        THEN <<"spi_mutex", "device_mutex", "command_queue", "dev">>
    ELSE IF step = "pn5180_spi_init"
        THEN <<"gpio", "spi_mutex", "device_mutex", "command_queue", "dev">>
    ELSE <<"spi", "gpio", "spi_mutex", "device_mutex", "command_queue", "dev">>

\* pn5180_init is called, with or without pin and RF configuration
InitBringup ==
    /\ dev = DevInit
    /\ chip = ChipInit
    /\ command_queue = <<>>
    /\ worker_pc = "none"
    /\ init_done = FALSE
    /\ irq_fault = "none"
    /\ tested = 0
    /\ ev = NoEvent
    /\ sketch = SketchIdle
    /\ spi = SpiIdle
    /\ tick = 0
    /\ reading = ReadingOff
    /\ since = SinceOff
    /\ \E pin_cfg, rf_cfg \in BOOLEAN :
         bringup = [pc |-> "entry", pin_cfg |-> pin_cfg, rf_cfg |-> rf_cfg,
                    next |-> 1, ran |-> <<>>, held |-> {}, failed |-> "none",
                    todo |-> <<>>, handle |-> "NULL", rf_config |-> "none"]

BringupUnchanged ==
    UNCHANGED <<dev, chip, command_queue, init_done, irq_fault, tested, ev, sketch, spi, tick, reading,
                since>>

\* the test of pin_cfg
InitEnter ==
    /\ bringup.pc = "entry"
    /\ bringup' = IF ~bringup.pin_cfg
                      THEN [bringup EXCEPT !.pc = "returned", !.failed = "pin_cfg"]
                  ELSE [bringup EXCEPT !.pc = "step"]
    /\ UNCHANGED worker_pc
    /\ BringupUnchanged

\* the next step succeeds; after calloc the RF configuration is copied or
\* set to the defaults; the last step creates the worker
InitStepOk ==
    /\ bringup.pc = "step"
    /\ LET step == InitSteps[bringup.next]
       IN  /\ bringup' = [bringup EXCEPT
                            !.ran = Append(@, step),
                            !.held = @ \cup Acquired(step),
                            !.rf_config = IF step # "calloc" THEN @
                                          ELSE IF bringup.rf_cfg THEN "given"
                                          ELSE "default",
                            !.next = @ + 1,
                            !.pc = IF bringup.next = Len(InitSteps) THEN "finish" ELSE "step"]
           /\ worker_pc' = IF step = "xTaskCreate" THEN "cmd" ELSE worker_pc
    /\ BringupUnchanged

\* the next step fails: pn5180_init goes on if the failure is ignored, and
\* otherwise takes the failure path of the step
InitStepFail ==
    /\ bringup.pc = "step"
    /\ LET step == InitSteps[bringup.next]
       IN  bringup' = IF Fatal(step)
                          THEN [bringup EXCEPT !.ran = Append(@, step),
                                               !.failed = step,
                                               !.todo = OnFailure(step),
                                               !.pc = "cleanup"]
                      ELSE [bringup EXCEPT !.ran = Append(@, step),
                                           !.next = @ + 1]
    /\ UNCHANGED worker_pc
    /\ BringupUnchanged

\* one release of the failure path
InitRelease ==
    /\ bringup.pc = "cleanup"
    /\ bringup.todo # <<>>
    /\ bringup' = [bringup EXCEPT !.held = @ \ {Head(bringup.todo)},
                                  !.todo = Tail(@)]
    /\ UNCHANGED worker_pc
    /\ BringupUnchanged

\* return NULL
InitFail ==
    /\ bringup.pc = "cleanup"
    /\ bringup.todo = <<>>
    /\ bringup' = [bringup EXCEPT !.pc = "returned", !.handle = "NULL"]
    /\ UNCHANGED worker_pc
    /\ BringupUnchanged

\* state = IDLE, return dev
InitReturn ==
    /\ bringup.pc = "finish"
    /\ bringup' = [bringup EXCEPT !.pc = "returned", !.handle = "dev"]
    /\ dev' = [dev EXCEPT !.state = "IDLE"]
    /\ init_done' = TRUE
    /\ ev' = Event("pn5180_init", PN5180_OK, 0)
    /\ UNCHANGED <<chip, command_queue, worker_pc, irq_fault, tested, sketch, spi, tick, reading, since>>

NextBringup ==
    \/ InitEnter
    \/ InitStepOk
    \/ InitStepFail
    \/ InitRelease
    \/ InitFail
    \/ InitReturn

SpecBringup == InitBringup /\ [][NextBringup]_vars

\* no element occurs twice
NoRepeat(seq) == \A i, j \in DOMAIN seq : seq[i] = seq[j] => i = j

\* C20: when pn5180_init has returned after a failed bring-up step, it has
\* returned NULL, holds none of the resources it acquired, has left no
\* worker behind, and has run no step twice, the failed step being the last.
C20_FailedInitReleasesAll ==
    (bringup.pc = "returned" /\ bringup.failed # "none") =>
        /\ bringup.handle = "NULL"
        /\ bringup.held = {}
        /\ worker_pc = "none"
        /\ ~init_done
        /\ dev.state = "UNINITIALIZED"
        /\ NoRepeat(bringup.ran)
        /\ bringup.failed # "pin_cfg" => bringup.ran[Len(bringup.ran)] = bringup.failed

\* pn5180_init has returned after protocol configuration, its eleventh step,
\* failed, and holds nothing
C20_Witness ==
    /\ bringup.pc = "returned"
    /\ bringup.failed = "pn5180_configure_protocols"
    /\ Len(bringup.ran) = 11
    /\ bringup.held = {}

\* ------------------------------------------------------------------------
\* The worker under the 32-bit tick counter (SpecClock).  A uint32_t value
\* is written as the integer congruent to it modulo 2^32 that lies in
\* -2^31 .. 2^31 - 1: -1 is 0xFFFFFFFF, and the counter wraps from -1 to 0.
\* The handlers' subtractions of two tick values keep using the ages of the
\* device; the receive deadline, which the code stores as a tick value and
\* compares as one, is followed here as the code computes it.
\* ------------------------------------------------------------------------

\* how many milliseconds before and after the wrap the counter is followed
NearWrap == 4

\* an instant far from the wrap
MidEpoch == 2 ^ 30

Instants == ((0 - NearWrap)..NearWrap) \cup {MidEpoch}

\* the next instant the counter is looked at, and the time until then
NextInstant(now) ==
    IF now = MidEpoch THEN 0 - NearWrap
    ELSE IF now = NearWrap THEN MidEpoch
    ELSE now + 1

UntilNext(now) == IF now \in {MidEpoch, NearWrap} THEN ERROR_BACKOFF_MS + 1 ELSE 1

\* a + n in uint32_t arithmetic
U32Add(a, n) ==
    IF a > 2147483647 - n THEN (a - 2147483647 - 1) + (n - 2147483647 - 1)
    ELSE a + n

\* a > b as the comparison of two uint32_t values
U32Greater(a, b) == IF (a < 0) = (b < 0) THEN a > b ELSE a < 0

\* pn5180_get_tick_ms() > dev->busy_wait_start_time
DeadlinePassed(now, busy_wait_start_time) == U32Greater(now, busy_wait_start_time)

InitClock == InitQueue

\* pn5180_device_state_t
DeviceStates ==
    {"UNINITIALIZED", "RESETTING", "IDLE", "CONFIGURING", "SCANNING", "TRANSMITTING",
     "RECEIVING", "PROCESSING", "ERROR", "SLEEP", "WAKING_UP"}

\* the worker has run the handler of the state and waits in
\* vTaskDelayUntil for the next tick: it iterates once a millisecond
WorkerDelayed == worker_pc = "cmd" /\ ev.op \in DeviceStates

ClockTick ==
    /\ WorkerDelayed
    /\ tick' = NextInstant(tick)
    /\ dev' = Elapse(dev, UntilNext(tick))
    /\ ev' = Event("tick", PN5180_OK, 0)
    /\ UNCHANGED <<chip, command_queue, worker_pc, init_done, irq_fault, tested, sketch, spi, bringup,
                   reading, since>>

\* the application starts a scan for ISO14443A once
ClockStartScanning ==
    /\ init_done
    /\ command_queue = <<>>
    /\ ~dev.scanning_enabled
    /\ ApiResult("pn5180_start_scanning",
                 pn5180_start_scanning(dev, command_queue, 1, 1,
                                        CardContext(1)))

\* dev->busy_wait_start_time = pn5180_get_tick_ms() + timeout_ms on the way
\* to Receiving
ClockTransmitting ==
    /\ InState("TRANSMITTING")
    /\ \E r \in BOOLEAN, irq_status \in IrqReads :
         LET s == pn5180_state_transmitting(dev, chip, r, irq_status)
             deadline == U32Add(tick, RxTimeout(dev.current_protocol_index))
         IN  Stepped("TRANSMITTING",
                     IF s.dev.state = "RECEIVING"
                         THEN [s EXCEPT !.dev.busy_wait_start_time = deadline]
                     ELSE s)

\* the Receiving handler with its deadline test made on the counter;
\* rx_over goes on counting the time that has really passed
ClockReceiving ==
    /\ InState("RECEIVING")
    /\ \E r \in BOOLEAN, irq_status \in IrqReads :
         LET over == IF DeadlinePassed(tick, dev.busy_wait_start_time) THEN 1 ELSE 0
             s == pn5180_state_receiving([dev EXCEPT !.rx_over = over], chip, r, irq_status)
         IN  Stepped("RECEIVING", [s EXCEPT !.dev.rx_over = dev.rx_over])

\* one step of pn5180_state_task
WorkerClock ==
    \/ NoCommand
    \/ CmdStartScan
    \/ StateUninitialized
    \/ StateIdle
    \/ StateConfiguring
    \/ StateScanning
    \/ ClockTransmitting
    \/ ClockReceiving
    \/ StateProcessing
    \/ StateError

NextClock ==
    \/ InitFinish
    \/ ClockTick
    \/ ClockStartScanning
    \/ NoCommand
    \/ CmdStartScan
    \/ StateUninitialized
    \/ StateIdle
    \/ StateConfiguring
    \/ StateScanning
    \/ ClockTransmitting
    \/ ClockReceiving
    \/ StateProcessing
    \/ StateError

\* The worker task keeps being scheduled, and the timer keeps counting: of
\* the delays the worker comes to, one ends with the next tick.
SpecClock ==
    InitClock /\ [][NextClock]_vars /\ SF_vars(ClockTick) /\ WF_vars(WorkerClock)

\* C19: whatever the chip and the bus do, the worker does not stay in
\* Transmitting for ever, does not stay in Receiving for ever, and keeps
\* coming back to the top of its loop
C19_TransmitReceiveAlwaysLeft ==
    /\ (dev.state = "TRANSMITTING") ~> (dev.state # "TRANSMITTING")
    /\ (dev.state = "RECEIVING") ~> (dev.state # "RECEIVING")
    /\ []<>(worker_pc = "cmd")

\* ------------------------------------------------------------------------
\* The read-UID handler taken step by step (SpecPoll): the set-up, each
\* turn of the wait for the response and the read of the answer, with the
\* time each takes.  The handler runs on the worker whatever the state of
\* the device is when the command arrives.
\* ------------------------------------------------------------------------

\* the longest a register read that succeeds is followed for; the bus waits
\* up to CONFIG_PN5180_SPI_TIMEOUT_MS for its mutex and up to
\* CONFIG_PN5180_BUSY_TIMEOUT_MS for the BUSY line
MaxReadLatency == 2

ReadLatencies == 0..MaxReadLatency

\* vTaskDelay(pdMS_TO_TICKS(1))
POLL_DELAY_MS == 1

\* timeout_ms of the commands sent
ReadTimeouts == {0, CONFIG_PN5180_DETECT_TIMEOUT_14443A_MS}

\* protocols asked for: two with a validator, one the driver cannot switch to
PollProtocols ==
    {PN5180_PROTOCOL_ISO14443A, PN5180_PROTOCOL_ISO14443B, PN5180_PROTOCOL_ISO15693}

\* the device when the command is received
ReadEntries ==
    {[DevInit EXCEPT !.state = "IDLE"]}
    \cup {[DevInit EXCEPT !.state = state, !.scanning_enabled = TRUE,
                          !.enabled_protocols = 1, !.card_callback = 1,
                          !.callback_user_data = CardContext(1)] :
            state \in {"SCANNING", "TRANSMITTING", "RECEIVING", "ERROR"}}

\* the record the caller passes as response_buffer: not one a read leaves
CallerCard == [ZeroCard EXCEPT !.protocol = PN5180_PROTOCOL_COUNT]

InitPoll ==
    /\ dev \in ReadEntries
    /\ chip = [ChipInit EXCEPT !.rf_on = dev.scanning_enabled]
    /\ \E protocol \in PollProtocols, timeout_ms \in ReadTimeouts :
         command_queue = <<[type |-> "CMD_READ_UID", protocols |-> 0,
                            protocol |-> protocol, timeout_ms |-> timeout_ms]>>
    /\ worker_pc = "cmd"
    /\ init_done = TRUE
    /\ irq_fault = "none"
    /\ tested = 0
    /\ ev = NoEvent
    /\ bringup = BringupOff
    /\ tick = 0
    /\ reading = ReadingOff
    /\ since = SinceOff
    /\ sketch = SketchIdle
    /\ spi = SpiIdle

PollUnchanged == UNCHANGED <<dev, chip, init_done, irq_fault, tested, sketch, spi, bringup, tick, since>>

\* the handler returns ret, having left the caller's record as card
ReadDone(r, ret, waited, last, card) ==
    [r EXCEPT !.pc = "done", !.ret = ret, !.waited = waited, !.last = last, !.card = card]

\* entry, pn5180_switch_protocol and pn5180_send_detect_command; f: the bus
\* access of the two that fails (0: none)
ReadSetUp ==
    /\ Received("CMD_READ_UID")
    /\ \E f \in 0..(SwitchAccesses + DetectAccesses) :
         LET cmd == Head(command_queue)
             sw == pn5180_switch_protocol(cmd.protocol, f)
             det == pn5180_send_detect_command(cmd.protocol, f - SwitchAccesses)
             r == [pc |-> "read_irq", protocol |-> cmd.protocol,
                   timeout_ms |-> cmd.timeout_ms, entry |-> dev.state,
                   waited |-> 0, last |-> 0, ret |-> PN5180_OK, card |-> CallerCard]
         IN  reading' = IF sw.err # PN5180_OK THEN ReadDone(r, sw.err, 0, 0, CallerCard)
                        ELSE IF det.err # PN5180_OK THEN ReadDone(r, det.err, 0, 0, CallerCard)
                        ELSE r
    /\ command_queue' = Tail(command_queue)
    /\ worker_pc' = "read_uid"
    /\ ev' = Event("CMD_READ_UID", PN5180_OK, 0)
    /\ PollUnchanged

\* whether the wait is over: pn5180_get_tick_ms() - start_time > timeout_ms
WaitOver_AtTimeout(waited, timeout_ms) == waited >= timeout_ms

WaitOver(waited, timeout_ms) == waited > timeout_ms

\* one turn of the wait up to the delay: the read of IRQ_STATUS, which takes
\* latency milliseconds and succeeds or not, and the tests made on its value
ReadPollIrq ==
    /\ reading.pc = "read_irq"
    /\ \E latency \in ReadLatencies, r \in BOOLEAN,
          irq_status \in {0, PN5180_IRQ_STATUS_RX_DONE, PN5180_IRQ_STATUS_RX_ERROR} :
         LET now == reading.waited + latency
         IN  reading' =
                 IF ~r THEN ReadDone(reading, PN5180_ERR_SPI, now, latency, reading.card)
                 ELSE IF HasBit(irq_status, PN5180_IRQ_STATUS_RX_DONE)
                     THEN [reading EXCEPT !.pc = "read_buffer", !.waited = now,
                                          !.last = latency]
                 ELSE IF HasBit(irq_status, PN5180_IRQ_STATUS_RX_ERROR)
                     THEN ReadDone(reading, PN5180_ERR_PROTOCOL, now, latency, reading.card)
                 ELSE IF WaitOver(now, reading.timeout_ms)
                     THEN ReadDone(reading, PN5180_ERR_TIMEOUT, now, latency, reading.card)
                 ELSE [reading EXCEPT !.pc = "delay", !.waited = now, !.last = latency]
    /\ UNCHANGED <<command_queue, worker_pc, ev, since>>
    /\ PollUnchanged

\* vTaskDelay(pdMS_TO_TICKS(1)) at the end of a turn
ReadPollDelay ==
    /\ reading.pc = "delay"
    /\ reading' = [reading EXCEPT !.pc = "read_irq", !.waited = @ + POLL_DELAY_MS]
    /\ UNCHANGED <<command_queue, worker_pc, ev, since>>
    /\ PollUnchanged

\* pn5180_read_buffer, the two assignments to the caller's record and the
\* validator of the protocol
ReadAnswer ==
    /\ reading.pc = "read_buffer"
    /\ \E r \in BOOLEAN, data \in TagAnswers :
         LET rd == pn5180_read_buffer(data, CONFIG_PN5180_RX_BUFFER_SIZE, r)
             card0 == [reading.card EXCEPT !.protocol = reading.protocol]
             v == IF reading.protocol = PN5180_PROTOCOL_ISO14443A
                      THEN pn5180_process_iso14443a_response(rd.buffer, rd.length, card0)
                  ELSE IF reading.protocol = PN5180_PROTOCOL_ISO15693
                      THEN pn5180_process_iso15693_response(rd.buffer, rd.length, card0)
                  ELSE [err |-> PN5180_ERR_UNSUPPORTED, card |-> card0]
         IN  reading' =
                 IF rd.err # PN5180_OK
                     THEN ReadDone(reading, rd.err, reading.waited, reading.last, reading.card)
                 ELSE ReadDone(reading, v.err, reading.waited, reading.last, v.card)
    /\ UNCHANGED <<command_queue, worker_pc, ev, since>>
    /\ PollUnchanged

\* the handler returns to pn5180_state_task, which goes on to the state
ReadReturn ==
    /\ reading.pc = "done"
    /\ reading' = ReadingOff
    /\ worker_pc' = "state"
    /\ ev' = [Event("CMD_READ_UID", reading.ret, 0) EXCEPT
                !.card = reading.card, !.proto = reading.protocol]
    /\ UNCHANGED command_queue
    /\ PollUnchanged

NextPoll ==
    \/ ReadSetUp
    \/ ReadPollIrq
    \/ ReadPollDelay
    \/ ReadAnswer
    \/ ReadReturn

SpecPoll == InitPoll /\ [][NextPoll]_vars

\* C21: the read-UID handler comes to its return with a decoded record or
\* an error, leaves the lifecycle state as it found it, and when it returns
\* PN5180_ERR_TIMEOUT it has waited for the response no longer than
\* timeout_ms and one poll delay; it is never found waiting after that time
C21_ReadReturnsWithinTimeout ==
    /\ reading.pc # "off" => dev.state = reading.entry
    /\ reading.pc \in {"read_irq", "delay"} =>
           reading.waited <= reading.timeout_ms + POLL_DELAY_MS
    /\ reading.pc = "done" =>
           /\ reading.ret = PN5180_OK =>
                  reading.card.protocol = reading.protocol /\ reading.card.uid_len > 0
           /\ reading.ret = PN5180_ERR_TIMEOUT =>
                  reading.waited <= reading.timeout_ms + POLL_DELAY_MS

\* C22: when the read-UID handler returns an error, the caller's card
\* record is as the caller passed it
C22_ErrorLeavesRecordUntouched ==
    (reading.pc = "done" /\ reading.ret # PN5180_OK) => reading.card = CallerCard

\* ------------------------------------------------------------------------
\* Transitions of the state machine (Spec)
\* ------------------------------------------------------------------------

\* the mask names a protocol the driver can switch to
HasSupportedProtocol(protocols) ==
    \/ HasBit(protocols, 2 ^ PN5180_PROTOCOL_ISO14443A)
    \/ HasBit(protocols, 2 ^ PN5180_PROTOCOL_ISO15693)

\* C23: a start command with a supported protocol in its mask, handled
\* while the device is Idle, takes the device to Configuring with that mask
C23_StartFromIdleConfigures ==
    [][(/\ CmdStep("CMD_START_SCAN")
        /\ dev.state = "IDLE"
        /\ HasSupportedProtocol(Head(command_queue).protocols))
       => /\ dev'.state = "CONFIGURING"
          /\ dev'.enabled_protocols = Head(command_queue).protocols]_vars

\* the first enabled protocol at or, in cyclic order, after idx; -1: none
NextEnabled(mask, idx) ==
    LET ahead == {k \in 0..(PN5180_PROTOCOL_COUNT - 1) :
                    HasBit(mask, 2 ^ ((idx + k) % PN5180_PROTOCOL_COUNT))}
        first == CHOOSE k \in ahead : \A j \in ahead : k <= j
    IN  IF ahead = {} THEN 0 - 1 ELSE (idx + first) % PN5180_PROTOCOL_COUNT

\* the step ends an attempt: the device comes back to Scanning from
\* Transmitting, Receiving or Processing
AttemptEnds ==
    /\ dev.state \in {"TRANSMITTING", "RECEIVING", "PROCESSING"}
    /\ dev'.state = "SCANNING"

\* the Scanning step is one that looks for a protocol: scanning is enabled
\* and the cycle delay has passed
ScanPass ==
    /\ StateStep("SCANNING")
    /\ dev.scanning_enabled
    /\ dev.scan_age >= CONFIG_PN5180_SCAN_CYCLE_DELAY_MS

\* C24: a pass through Scanning makes at most one attempt, on the first
\* enabled protocol at or cyclically after the index, and goes to Idle when
\* no protocol is enabled; an attempt, dispatched or failed, leaves the
\* index one past its protocol, so that the next attempt is on the next
\* enabled protocol after it
C24_RoundRobin ==
    [][/\ ScanPass =>
            LET target == NextEnabled(dev.enabled_protocols, dev.current_protocol_index)
            IN  /\ target = 0 - 1 => dev'.state = "IDLE"
                /\ ev'.bus <= SwitchAccesses + DetectAccesses
                /\ dev'.state \in {"SCANNING", "TRANSMITTING", "IDLE"}
                /\ dev'.state = "TRANSMITTING" => dev'.current_protocol_index = target
                /\ (dev'.state = "SCANNING" /\ dev' # dev) =>
                       dev'.current_protocol_index = target + 1
       /\ AttemptEnds => dev'.current_protocol_index = dev.current_protocol_index + 1
      ]_vars

\* ------------------------------------------------------------------------
\* The worker with stop-watches (SpecTimed): the time since the last scan
\* attempt began, the time since the detect command in flight was
\* dispatched (at the grain of the ages of the device) and the time the
\* device has been in Error.  The worker is followed at every instant of
\* interest: the clock moves on only after the worker has run the handler
\* of the state.
\* ------------------------------------------------------------------------

\* the stop-watches stop counting here
ATTEMPT_WATCH_MS == 3
ERROR_WATCH_MS == ERROR_BACKOFF_MS + 1

\* How far the clock moves in one step: to the next instant at which a
\* handler can find a difference.  That is 1 ms on while the cycle delay
\* or the receive deadline runs, or on to the next mark of the age of the
\* state.
TimedTickSteps(d) ==
    (IF d.state \in {"SCANNING", "RECEIVING"} THEN {1} ELSE {})
    \cup {m - d.state_age : m \in {n \in AgeMarks : n > d.state_age /\
                                     \A k \in AgeMarks : k > d.state_age => n <= k}}

InitTimed == InitQueue

\* the step from device d0 to d1 begins a scan: configuration is complete;
\* or a scan attempt: the detect command is dispatched, or the switch or
\* the dispatch fails
AttemptBegins(d0, d1) ==
    \/ d0.state = "CONFIGURING" /\ d1.state = "SCANNING"
    \/ d0.state = "SCANNING" /\ d1.state = "TRANSMITTING"
    \/ d0.state = "SCANNING" /\ d1.state = "SCANNING" /\ d1 # d0

\* the detect command is dispatched
Dispatched(d0, d1) == d0.state = "SCANNING" /\ d1.state = "TRANSMITTING"

ErrorEntered(d0, d1) == d0.state # "ERROR" /\ d1.state = "ERROR"

\* the stop-watches after a step of the worker from d0 to d1
Measured(d0, d1) ==
    [attempt |-> IF AttemptBegins(d0, d1) THEN 0 ELSE since.attempt,
     dispatch |-> IF Dispatched(d0, d1) \/ d1.state # "TRANSMITTING" THEN 0
                  ELSE since.dispatch,
     error |-> IF d1.state # "ERROR" \/ ErrorEntered(d0, d1) THEN 0 ELSE since.error]

TimedTick ==
    /\ WorkerDelayed
    /\ \E ms \in TimedTickSteps(dev) :
         /\ dev' = Elapse(dev, ms)
         /\ since' = [attempt |-> Min(since.attempt + ms, ATTEMPT_WATCH_MS),
                      dispatch |-> IF dev.state = "TRANSMITTING"
                                       THEN Min(since.dispatch + ms, TX_TIMEOUT_MS + 1)
                                   ELSE 0,
                      error |-> IF dev.state = "ERROR"
                                    THEN Min(since.error + ms, ERROR_WATCH_MS)
                                ELSE 0]
    /\ ev' = Event("tick", PN5180_OK, 0)
    /\ UNCHANGED <<chip, command_queue, worker_pc, init_done, irq_fault, tested, sketch, spi, bringup,
                   tick, reading>>

\* masks the application scans with: ISO14443A; ISO14443A and ISO15693
TimedMasks == {1, 5}

\* the application: one command at a time
TimedCall == init_done /\ command_queue = <<>>

TimedStartScanning ==
    /\ TimedCall
    /\ \E protocols \in TimedMasks :
         ApiResult("pn5180_start_scanning",
                   pn5180_start_scanning(dev, command_queue, protocols, 1,
                                        CardContext(1)))

TimedStopScanning ==
    /\ TimedCall
    /\ ApiResult("pn5180_stop_scanning", pn5180_stop_scanning(dev, command_queue))

TimedReset ==
    /\ TimedCall
    /\ ApiResult("pn5180_reset", pn5180_enqueue(dev, command_queue, "CMD_RESET"))

\* the handler of the state has run with result s; r, data: what its read
\* of the bus yielded
TimedStepped(state, s, r, data) ==
    /\ dev' = s.dev
    /\ chip' = s.chip
    /\ worker_pc' = IF s.hang THEN "hung" ELSE "cmd"
    /\ since' = Measured(dev, s.dev)
    /\ ev' = [op |-> state, ret |-> PN5180_OK, bus |-> s.bus,
              called |-> s.called, cb |-> IF s.called THEN dev.card_callback ELSE 0,
              err |-> s.err, card |-> s.card, rx_length |-> s.rx_length,
              read_ok |-> r, answer |-> IF r THEN data ELSE <<>>,
              proto |-> IF state = "PROCESSING" THEN dev.current_protocol_index ELSE 0,
              user_data |-> IF s.called THEN dev.callback_user_data ELSE 0]
    /\ UNCHANGED <<command_queue, init_done, irq_fault, tested, sketch, spi, bringup, tick, reading>>

TimedResetting ==
    /\ InState("RESETTING")
    /\ \E r \in BOOLEAN :
         TimedStepped("RESETTING", pn5180_state_resetting(dev, chip, r), FALSE, <<>>)

TimedIdle ==
    /\ InState("IDLE")
    /\ TimedStepped("IDLE", pn5180_state_idle(dev, chip), FALSE, <<>>)

TimedConfiguring ==
    /\ InState("CONFIGURING")
    /\ \E r1, r2, r4 \in BOOLEAN :
         TimedStepped("CONFIGURING", pn5180_state_configuring(dev, chip, r1, r2, r4),
                      FALSE, <<>>)

TimedScanning ==
    /\ InState("SCANNING")
    /\ \E f \in 0..(SwitchAccesses + DetectAccesses) :
         TimedStepped("SCANNING", pn5180_state_scanning(dev, chip, f), FALSE, <<>>)

TimedTransmitting ==
    /\ InState("TRANSMITTING")
    /\ \E r \in BOOLEAN, irq_status \in IrqReads :
         TimedStepped("TRANSMITTING", pn5180_state_transmitting(dev, chip, r, irq_status),
                      r, <<irq_status>>)

TimedReceiving ==
    /\ InState("RECEIVING")
    /\ \E r \in BOOLEAN, irq_status \in IrqReads :
         TimedStepped("RECEIVING", pn5180_state_receiving(dev, chip, r, irq_status),
                      r, <<irq_status>>)

TimedProcessing ==
    /\ InState("PROCESSING")
    /\ \E r \in BOOLEAN, data \in TagAnswers, rf_status \in RfStatusReads :
         TimedStepped("PROCESSING", pn5180_state_processing(dev, chip, r, data, rf_status),
                      r, data)

TimedError ==
    /\ InState("ERROR")
    /\ TimedStepped("ERROR", pn5180_state_error(dev, chip), FALSE, <<>>)

NextTimed ==
    \/ InitFinish
    \/ TimedTick
    \/ TimedStartScanning
    \/ TimedStopScanning
    \/ TimedReset
    \/ NoCommand
    \/ CmdStartScan
    \/ CmdStopScan
    \/ CmdReset
    \/ StateUninitialized
    \/ TimedResetting
    \/ TimedIdle
    \/ TimedConfiguring
    \/ TimedScanning
    \/ TimedTransmitting
    \/ TimedReceiving
    \/ TimedProcessing
    \/ TimedError

SpecTimed == InitTimed /\ [][NextTimed]_vars

\* the step is a pass through Scanning with scanning enabled and a protocol
\* to attempt
PassWithProtocol ==
    /\ StateStep("SCANNING")
    /\ dev.scanning_enabled
    /\ NextEnabled(dev.enabled_protocols, dev.current_protocol_index) # 0 - 1

\* C25: a pass through Scanning begins a scan attempt only when the cycle
\* delay has passed since the previous attempt began, and the delay counts
\* from that beginning: once it has passed, the pass does not wait
C25_CycleDelayFromAttemptStart ==
    [][PassWithProtocol =>
         (AttemptBegins(dev, dev') <=> since.attempt >= CONFIG_PN5180_SCAN_CYCLE_DELAY_MS)]_vars

\* C26: a Processing step ends in Scanning with the index one further,
\* whether the buffer was read and validated or not; when it invokes the
\* callback, the card it passes carries the index as it was before the step
C26_ProcessingAdvances ==
    [][StateStep("PROCESSING") =>
         /\ dev'.state = "SCANNING"
         /\ dev'.current_protocol_index = Inc8(dev.current_protocol_index)
         /\ ev'.called => ev'.card.protocol = dev.current_protocol_index]_vars

\* C27: a step of Transmitting that reads IRQ_STATUS goes to Receiving on
\* transmit-complete, with the receive deadline of the protocol (2 ms for
\* ISO14443A and ISO14443B, 5 ms for ISO15693 and for any other index) and
\* the index kept; without transmit-complete it goes to Scanning with the
\* index advanced by one on a transmit error or when more than 100 ms have
\* passed since the dispatch, and stays in Transmitting otherwise.
C27_TransmittingLeaves ==
    [][(StateStep("TRANSMITTING") /\ ev'.read_ok) =>
         LET irq_status == ev'.answer[1]
             index == dev.current_protocol_index
             deadline == IF index \in {PN5180_PROTOCOL_ISO14443A, PN5180_PROTOCOL_ISO14443B}
                             THEN 2 ELSE 5
         IN  IF HasBit(irq_status, PN5180_IRQ_STATUS_TX_DONE)
                 THEN /\ dev'.state = "RECEIVING"
                      /\ dev'.current_protocol_index = index
                      /\ dev'.rx_over = 0 - deadline
             ELSE IF HasBit(irq_status, PN5180_IRQ_STATUS_TX_ERROR) \/ since.dispatch > 100
                 THEN /\ dev'.state = "SCANNING"
                      /\ dev'.current_protocol_index = index + 1
             ELSE dev'.state = "TRANSMITTING" /\ dev'.current_protocol_index = index]_vars

\* the transmit timeout ends an ISO15693 attempt whose dispatch is more than
\* 100 ms old and that shows no transmit status
C27_TransmitTimedOut ==
    /\ ev.op = "TRANSMITTING"
    /\ ev.read_ok
    /\ ev.answer = <<0>>
    /\ dev.state = "SCANNING"
    /\ dev.current_protocol_index = PN5180_PROTOCOL_ISO15693 + 1

\* this step is a step of Receiving that reads IRQ_STATUS and finds
\* neither RX_DONE nor RX_ERROR in it
ReceivingWaits ==
    /\ StateStep("RECEIVING")
    /\ ev'.bus = 1
    /\ dev'.state # "ERROR"

\* C28: a step of Receiving that finds neither receive-complete nor
\* receive-error returns to Scanning, with the protocol index advanced,
\* exactly when the time the deadline allows has passed since the device
\* entered Receiving, wherever the millisecond counter stands.
C28_ReceiveDeadlineAtAnyTick ==
    [][ReceivingWaits =>
         /\ dev'.state = "SCANNING" <=> dev.rx_over > 0
         /\ dev'.state = "SCANNING" =>
                dev'.current_protocol_index = dev.current_protocol_index + 1
         /\ dev'.state # "SCANNING" => dev'.state = "RECEIVING"]_vars

\* C29: the Error handler leaves Error only when the backoff has passed
\* since the device entered Error, after the soft reset and the
\* reconfiguration, and then for Configuring when scanning is enabled and
\* for Idle when it is not.
C29_ErrorBackoffFromEntry ==
    [][(StateStep("ERROR") /\ dev'.state # "ERROR") =>
         /\ since.error >= ERROR_BACKOFF_MS
         /\ ev'.bus = 2
         /\ dev'.state = IF dev.scanning_enabled THEN "CONFIGURING" ELSE "IDLE"]_vars

\* this step is a pass through Scanning in which a write of
\* pn5180_switch_protocol to a protocol configuration register fails
SwitchFails ==
    /\ StateStep("SCANNING")
    /\ ev'.bus \in 1..SwitchAccesses

\* this step is a pass through Scanning in which an access of
\* pn5180_send_detect_command fails
DetectFails ==
    /\ StateStep("SCANNING")
    /\ ev'.bus > SwitchAccesses
    /\ dev'.state # "TRANSMITTING"

\* this step is a step of Transmitting or Receiving whose read of
\* IRQ_STATUS fails
IrqReadFails ==
    /\ StateStep("TRANSMITTING") \/ StateStep("RECEIVING")
    /\ ~ev'.read_ok

\* this step is a step of Processing whose read of the receive buffer fails
BufferReadFails ==
    /\ StateStep("PROCESSING")
    /\ ~ev'.read_ok

\* C30: a bus access that fails during a scan cycle is not reported to the
\* application's callback.  When the access is one to a control register
\* (IRQ_STATUS, the protocol configuration registers) the device goes to
\* Error; otherwise it is back in Scanning with the protocol index one
\* past the protocol of the attempt.
C30_BusFailureRecoveredLocally ==
    [][/\ (SwitchFails \/ DetectFails \/ IrqReadFails \/ BufferReadFails) => ~ev'.called
       /\ (SwitchFails \/ IrqReadFails) => dev'.state = "ERROR"
       /\ BufferReadFails =>
              /\ dev'.state = "SCANNING"
              /\ dev'.current_protocol_index = dev.current_protocol_index + 1
       /\ DetectFails =>
              \/ dev'.state = "ERROR"
              \/ /\ dev'.state = "SCANNING"
                 /\ dev'.current_protocol_index =
                        NextEnabled(dev.enabled_protocols, dev.current_protocol_index) + 1
      ]_vars

\* ------------------------------------------------------------------------
\* Power management and bring-up (Spec)
\* ------------------------------------------------------------------------

\* C31: a sleep command handled in Idle or Scanning puts the device in
\* Sleep exactly when the handler returns PN5180_OK, and then the chip has
\* its RF field off and the power-down request written; the power-down
\* request is never written while the field is on; when the handler
\* returns an error, the device is as it was.
C31_SleepAfterFieldOff ==
    [][(CmdStep("CMD_SLEEP") /\ dev.state \in {"IDLE", "SCANNING"}) =>
         /\ dev'.state = "SLEEP" <=> ev'.ret = PN5180_OK
         /\ dev'.state = "SLEEP" => (~chip'.rf_on /\ chip'.power_down)
         /\ (chip'.power_down /\ ~chip.power_down) => ~chip'.rf_on
         /\ ev'.ret # PN5180_OK => (dev' = dev /\ chip'.power_down = chip.power_down)]_vars

\* a sleep command handled while scanning: the field was switched off and
\* the power-down request written, three bus accesses in all
C31_SleptFromScanning ==
    /\ ev.op = "CMD_SLEEP"
    /\ ev.ret = PN5180_OK
    /\ ev.bus = 3
    /\ dev.scanning_enabled
    /\ dev.state = "SLEEP"
    /\ chip.power_down
    /\ ~chip.rf_on

\* C32: the device enters WakingUp only from Sleep and only by a wake
\* command, and leaves WakingUp for Idle only by the step of the WakingUp
\* handler that finds the settle delay passed and reprograms the registers.
C32_WakeOnlyFromSleep ==
    [][/\ (dev'.state = "WAKING_UP" /\ dev.state # "WAKING_UP") =>
              (dev.state = "SLEEP" /\ CmdStep("CMD_WAKEUP"))
       /\ (dev.state = "WAKING_UP" /\ dev'.state = "IDLE") =>
              /\ StateStep("WAKING_UP")
              /\ dev.state_age >= WAKE_SETTLE_MS
              /\ ev'.bus = 1
      ]_vars

\* C33: the device leaves Uninitialized only at the end of a successful
\* pn5180_init, and then for Resetting, so that Idle is not entered from
\* Uninitialized.
C33_UninitializedToResetting ==
    [][(dev.state = "UNINITIALIZED" /\ dev'.state # "UNINITIALIZED") =>
         /\ ~init_done /\ init_done'
         /\ dev'.state = "RESETTING"]_vars

\* the number of bytes the tag sent in the reception that left the given
\* content in the chip's receive buffer: 7 for the MIFARE Classic answer
\* (ATQA, SAK, 4 identifier bytes), 10 for the inventory answer, none for
\* the empty buffer.  pn5180_read_buffer does not ask the chip for it.
BytesReceived(data) ==
    IF data = GoodMifare THEN 7
    ELSE IF data = GoodVicinity THEN 10
    ELSE 0

\* C34: the length the validator receives in Processing is the number of
\* bytes the tag sent in that cycle.
C34_LengthIsBytesReceived ==
    (ev.op = "PROCESSING" /\ ev.read_ok) => ev.rx_length = BytesReceived(ev.answer)

\* C35: the protocol index of the device is a protocol number in every
\* reachable state.
C35_IndexIsProtocol ==
    dev.current_protocol_index \in 0..(PN5180_PROTOCOL_COUNT - 1)

\* ------------------------------------------------------------------------
\* The search for the next protocol, for every protocol mask (SpecSearch)
\* ------------------------------------------------------------------------

\* every value of the uint8_t mask
AllMasks == 0..255

\* The application starts a scan with any mask.  A later start writes the
\* mask anew and sets the index to 0 as the first does, so that one start
\* with a protocol in the mask is followed here.
SearchStartScanning ==
    /\ CanCall
    /\ command_queue = <<>>
    /\ ~dev.scanning_enabled
    /\ dev.enabled_protocols = 0
    /\ \E protocols \in AllMasks :
         ApiResult("pn5180_start_scanning",
                   pn5180_start_scanning(dev, command_queue, protocols, 1,
                                        CardContext(1)))

NextSearch ==
    \/ InitFinish
    \/ Tick
    \/ SearchStartScanning
    \/ StopScanning
    \/ NoCommand
    \/ CmdStartScan
    \/ CmdStopScan
    \/ StateUninitialized
    \/ StateIdle
    \/ StateConfiguring
    \/ StateScanning
    \/ StateTransmitting
    \/ StateReceiving
    \/ StateProcessing
    \/ StateError

SpecSearch == Init /\ [][NextSearch]_vars

\* the number of tests of a mask bit the search makes from index start
ProbesMade(mask, start) ==
    2 * 256 - FindEnabledProtocol(mask, start, start, 2 * 256).left + 1

\* C36: the search of a pass through Scanning ends, with a protocol
\* selected or with none found enabled, after at most PN5180_PROTOCOL_COUNT
\* tests of a mask bit.
C36_SearchEnds ==
    [][ScanPass =>
         /\ worker_pc' # "hung"
         /\ ProbesMade(dev.enabled_protocols, dev.current_protocol_index)
                <= PN5180_PROTOCOL_COUNT]_vars

\* ------------------------------------------------------------------------
\* Masks of protocols the driver cannot switch to (SpecUnswitchable)
\* ------------------------------------------------------------------------

\* every protocol enabled in the mask is one pn5180_switch_protocol rejects
Unswitchable(mask) ==
    /\ mask # 0
    /\ \A i \in 0..7 :
         HasBit(mask, 2 ^ i) =>
             i \in {PN5180_PROTOCOL_ISO14443B, PN5180_PROTOCOL_NFCIP1, PN5180_PROTOCOL_FELICA}

\* masks the application asks for: ISO14443A; ISO14443B; FeliCa;
\* ISO14443B + NFCIP1 + FeliCa
SwitchMasks == {1, 2, 16, 26}

UnswitchableStartScanning ==
    /\ CanCall
    /\ \E protocols \in SwitchMasks :
         ApiResult("pn5180_start_scanning",
                   pn5180_start_scanning(dev, command_queue, protocols, 1,
                                        CardContext(1)))

NextUnswitchable ==
    \/ InitFinish
    \/ Tick
    \/ UnswitchableStartScanning
    \/ StopScanning
    \/ Sleep
    \/ Wakeup
    \/ Reset
    \/ NoCommand
    \/ CmdStartScan
    \/ CmdStopScan
    \/ CmdSleep
    \/ CmdWakeup
    \/ CmdReset
    \/ StateUninitialized
    \/ StateResetting
    \/ StateIdle
    \/ StateConfiguring
    \/ StateScanning
    \/ StateTransmitting
    \/ StateReceiving
    \/ StateProcessing
    \/ StateError
    \/ StateSleep
    \/ StateWakingUp

SpecUnswitchable == Init /\ [][NextUnswitchable]_vars

\* C37: while scanning is enabled with a mask of protocols the driver
\* cannot switch to, the device does not enter Transmitting, the callback
\* is not invoked, and the device leaves Scanning only when a stop, sleep
\* or reset command is handled.
C37_UnswitchableStaysScanning ==
    [][(dev.scanning_enabled /\ Unswitchable(dev.enabled_protocols)) =>
         /\ dev'.state # "TRANSMITTING"
         /\ ~ev'.called
         /\ (dev.state = "SCANNING" /\ dev'.state # "SCANNING") =>
                \/ CmdStep("CMD_STOP_SCAN")
                \/ CmdStep("CMD_SLEEP")
                \/ CmdStep("CMD_RESET")]_vars

\* ------------------------------------------------------------------------
\* Registration of callbacks (SpecCallbacks)
\* ------------------------------------------------------------------------

pn5180_set_error_callback(d, callback, user_data) ==
    [d EXCEPT !.error_callback = callback, !.callback_user_data = user_data]

pn5180_set_log_callback(d, callback, user_data) ==
    [d EXCEPT !.log_callback = callback, !.callback_user_data = user_data]

\* the application has registered a callback: the device is now d
Registered(op, d) ==
    /\ init_done
    /\ dev' = d
    /\ ev' = Event(op, PN5180_OK, 0)
    /\ UNCHANGED <<chip, command_queue, worker_pc, init_done, irq_fault, tested, sketch, spi,
                   bringup, tick, reading, since>>

SetErrorCallback ==
    \E callback \in Callbacks :
        Registered("pn5180_set_error_callback",
                   pn5180_set_error_callback(dev, callback, ErrorContext(callback)))

SetLogCallback ==
    \E callback \in Callbacks :
        Registered("pn5180_set_log_callback",
                   pn5180_set_log_callback(dev, callback, LogContext(callback)))

\* the application starts a scan for ISO15693 with a card callback
CallbackStartScanning ==
    /\ CanCall
    /\ ApiResult("pn5180_start_scanning",
                 pn5180_start_scanning(dev, command_queue, 2 ^ PN5180_PROTOCOL_ISO15693, 1,
                                       CardContext(1)))

NextCallbacks ==
    \/ InitFinish
    \/ Tick
    \/ CallbackStartScanning
    \/ StopScanning
    \/ SetCardCallback
    \/ SetErrorCallback
    \/ SetLogCallback
    \/ NoCommand
    \/ CmdStartScan
    \/ CmdStopScan
    \/ StateUninitialized
    \/ StateIdle
    \/ StateConfiguring
    \/ StateScanning
    \/ StateTransmitting
    \/ StateReceiving
    \/ StateProcessing
    \/ StateError

SpecCallbacks == Init /\ [][NextCallbacks]_vars

\* C38: the user data the card callback is invoked with is the user data
\* that was registered together with that callback.
C38_CardCallbackGetsItsUserData ==
    ev.called => ev.user_data = CardContext(ev.cb)

\* ------------------------------------------------------------------------
\* The card callback read by the worker while the application writes it
\* (SpecRace)
\*
\* pn5180_state_processing tests dev->card_callback and calls through it
\* without holding device_mutex, while pn5180_set_card_callback writes the
\* field from the application's task.  The step is split at the test: the
\* call uses the value tested or the value the field holds at the call,
\* depending on whether the build reads the field once or twice.
\* ------------------------------------------------------------------------

\* the handler up to the test of dev->card_callback
RaceProcessingTest ==
    /\ InState("PROCESSING")
    /\ \E r \in BOOLEAN, data \in TagAnswers, rf_status \in RfStatusReads :
         LET s == pn5180_state_processing(dev, chip, r, data, rf_status)
         IN  IF s.called
                 THEN /\ worker_pc' = "callback"
                      /\ tested' = dev.card_callback
                      /\ ev' = [NoEvent EXCEPT !.op = "PROCESSING", !.bus = s.bus,
                                               !.card = s.card,
                                               !.rx_length = s.rx_length, !.read_ok = r,
                                               !.answer = data,
                                               !.proto = dev.current_protocol_index]
                      /\ UNCHANGED <<dev, chip>>
             ELSE /\ worker_pc' = "cmd"
                  /\ dev' = s.dev
                  /\ chip' = s.chip
                  /\ ev' = [NoEvent EXCEPT !.op = "PROCESSING", !.bus = s.bus, !.err = s.err,
                                           !.card = s.card, !.rx_length = s.rx_length,
                                           !.read_ok = r,
                                           !.answer = IF r THEN data ELSE <<>>,
                                           !.proto = dev.current_protocol_index]
                  /\ UNCHANGED tested
    /\ UNCHANGED <<command_queue, init_done, irq_fault, sketch, spi, bringup, tick, reading,
                   since>>

\* the call through dev->card_callback and the rest of the handler
RaceProcessingCall ==
    /\ worker_pc = "callback"
    /\ \E callback \in {tested, dev.card_callback} :
         ev' = [NoEvent EXCEPT !.op = "PROCESSING", !.called = TRUE, !.cb = callback,
                                  !.user_data = dev.callback_user_data]
    /\ dev' = [dev EXCEPT !.current_protocol_index = Inc8(@), !.state = "SCANNING",
                          !.scan_age = 0]
    /\ tested' = 0
    /\ worker_pc' = "cmd"
    /\ UNCHANGED <<chip, command_queue, init_done, irq_fault, sketch, spi, bringup, tick,
                   reading, since>>

\* the application starts a scan for ISO15693, with or without a callback
RaceStartScanning ==
    /\ CanCall
    /\ \E callback \in Callbacks :
         ApiResult("pn5180_start_scanning",
                   pn5180_start_scanning(dev, command_queue, 2 ^ PN5180_PROTOCOL_ISO15693,
                                         callback, CardContext(callback)))

NextRace ==
    \/ InitFinish
    \/ Tick
    \/ RaceStartScanning
    \/ StopScanning
    \/ SetCardCallback
    \/ NoCommand
    \/ CmdStartScan
    \/ CmdStopScan
    \/ StateUninitialized
    \/ StateIdle
    \/ StateConfiguring
    \/ StateScanning
    \/ StateTransmitting
    \/ StateReceiving
    \/ RaceProcessingTest
    \/ RaceProcessingCall
    \/ StateError

SpecRace == Init /\ [][NextRace]_vars

\* C39: the callback the worker calls is never NULL.
C39_NoNullCallback ==
    ev.called => ev.cb # 0

\* ------------------------------------------------------------------------
\* pn5180_deinit while the worker handles the stop command (SpecDeinit)
\*
\* pn5180_deinit runs on the application's task.  It clears scanning_enabled
\* and deletes the worker with vTaskDelete wherever the worker is: before
\* xQueueReceive, inside the handler with device_mutex taken, or inside a
\* bus transaction with spi_mutex taken, blocked in vTaskDelay of
\* pn5180_wait_busy or in spi_device_transmit.  vTaskDelete gives back no
\* mutex the deleted task holds.
\* ------------------------------------------------------------------------

\* pn5180_deinit up to the deletion of the worker
Deinit ==
    /\ init_done
    /\ worker_pc # "deleted"
    /\ dev' = [dev EXCEPT !.scanning_enabled = FALSE]
    /\ worker_pc' = "deleted"
    /\ spi' = [spi EXCEPT !.pc = "deleted"]
    /\ ev' = [NoEvent EXCEPT !.op = "pn5180_deinit"]
    /\ UNCHANGED <<chip, command_queue, init_done, irq_fault, tested, sketch, bringup, tick,
                   reading, since>>

NextDeinit ==
    \/ Deinit
    \/ StopTake
    \/ StopCheck
    \/ StopRead
    \/ StopWrite
    \/ StopFinish
    \/ IsBusyTake
    \/ IsBusyGive
    \/ SpiTake
    \/ SpiTakeTimeout
    \/ WaitBusy
    \/ SpiTransmit
    \/ BusyChange
    \/ OtherTake
    \/ OtherGive

SpecDeinit == InitLock /\ [][NextDeinit]_vars

\* C40: once pn5180_deinit has deleted the worker, neither spi_mutex nor
\* device_mutex is held by the deleted worker, so that the bus access of the
\* power-down that follows can take spi_mutex.
C40_NoLockLeftHeld ==
    worker_pc = "deleted" => (spi.spi_mutex # "worker" /\ dev.device_mutex # "worker")

====
